---- MODULE Spec2Model ----
(***************************************************************************)
(* A model of the domain-to-legal-entity services:                         *)
(*   - EntityExtractor (server/fastapi_processor.py): the HTML mining      *)
(*     pipeline, its cleaning rules and the primary-entity selection;      *)
(*   - generate_domain_hash / get_domain_hash (domain_hash_service.py);    *)
(*   - analyze_shell_selection (analytics_server.py): the jurisdiction     *)
(*     bias report.                                                        *)
(* Text is modelled character by character: a Python str is a sequence of  *)
(* one-character strings, and the regular expressions of the source are    *)
(* syntax trees matched by a backtracking matcher with Python's priority   *)
(* order (greedy before lazy alternatives, leftmost match first).          *)
(***************************************************************************)
EXTENDS Integers, Sequences, FiniteSets, TLC

\* Python's None, for a value compared with TLA+ strings
None == "None"

(***************************************************************************)
(* Characters and str methods                                              *)
(***************************************************************************)
UpperSeq ==
  <<"A","B","C","D","E","F","G","H","I","J","K","L","M",
    "N","O","P","Q","R","S","T","U","V","W","X","Y","Z">>
LowerSeq ==
  <<"a","b","c","d","e","f","g","h","i","j","k","l","m",
    "n","o","p","q","r","s","t","u","v","w","x","y","z">>
Upper == {UpperSeq[i] : i \in 1..26}
Lower == {LowerSeq[i] : i \in 1..26}
DigitSeq == <<"0","1","2","3","4","5","6","7","8","9">>
Digit == {DigitSeq[i] : i \in 1..10}
\* the characters str.split(), str.strip() and the regex class \s treat as space
Space == {" ", "\t", "\n", "\r"}
\* the regex class \w
Word == Upper \cup Lower \cup Digit \cup {"_"}
\* the two non-ASCII characters of the patterns, as atoms
cCopy == "U+00A9"
cEnDash == "U+2013"

\* str.lower() / str.upper() of one character
ToLower(c) == IF c \in Upper THEN LowerSeq[CHOOSE i \in 1..26 : UpperSeq[i] = c] ELSE c
ToUpper(c) == IF c \in Lower THEN UpperSeq[CHOOSE i \in 1..26 : LowerSeq[i] = c] ELSE c

\* str.lower()
StrLower(s) == [i \in 1..Len(s) |-> ToLower(s[i])]

\* s[n:]
DropFirst(s, n) == IF n >= Len(s) THEN <<>> ELSE SubSeq(s, n + 1, Len(s))
\* s[:n]
TakeFirst(s, n) == IF n >= Len(s) THEN s ELSE SubSeq(s, 1, n)

\* str.startswith / str.endswith
StartsWith(s, p) == Len(p) <= Len(s) /\ SubSeq(s, 1, Len(p)) = p
EndsWith(s, p) == Len(p) <= Len(s) /\ SubSeq(s, Len(s) - Len(p) + 1, Len(s)) = p

\* str.strip()
RECURSIVE LStrip(_)
LStrip(s) == IF s # <<>> /\ Head(s) \in Space THEN LStrip(Tail(s)) ELSE s
RECURSIVE RStrip(_)
RStrip(s) ==
  IF s # <<>> /\ s[Len(s)] \in Space THEN RStrip(SubSeq(s, 1, Len(s) - 1)) ELSE s
Strip(s) == RStrip(LStrip(s))

\* the value v under a name: Body applied to v
Bind(v, Body(_)) == Body(v)

MinOf(S) == CHOOSE x \in S : \A y \in S : x <= y

\* str.split(): the maximal runs of non-space characters, in order
RECURSIVE SplitFrom(_, _)
SplitFrom(s, i) ==
  LET starts == {j \in i..Len(s) : s[j] \notin Space}
  IN  IF starts = {} THEN <<>>
      ELSE LET b == MinOf(starts)
               e == MinOf({j \in b..(Len(s) + 1) : j = Len(s) + 1 \/ s[j] \in Space})
           IN  <<SubSeq(s, b, e - 1)>> \o SplitFrom(s, e)
StrSplit(s) == SplitFrom(s, 1)

\* ' '.join(words)
RECURSIVE JoinSpace(_)
JoinSpace(words) ==
  IF words = <<>> THEN <<>>
  ELSE IF Len(words) = 1 THEN words[1]
  ELSE words[1] \o <<" ">> \o JoinSpace(Tail(words))

(***************************************************************************)
(* The re module: patterns as syntax trees                                 *)
(*   [t |-> "set", cs]            one character of the class cs            *)
(*   [t |-> "cat", a, b]          a then b                                 *)
(*   [t |-> "alt", a, b]          a | b                                    *)
(*   [t |-> "rep", r, min, max, greedy]   r{min,max}, max = Inf: no limit  *)
(*   [t |-> "wb"]  \b      [t |-> "eos"]  $      [t |-> "eps"]  empty      *)
(***************************************************************************)
Inf == 0 - 1

Set(cs) == [t |-> "set", cs |-> cs]
Chr(c) == Set({c})
Cat(a, b) == [t |-> "cat", a |-> a, b |-> b]
Alt(a, b) == [t |-> "alt", a |-> a, b |-> b]
Rep(r, min, max, greedy) == [t |-> "rep", r |-> r, min |-> min, max |-> max, greedy |-> greedy]
Star(r) == Rep(r, 0, Inf, TRUE)
Plus(r) == Rep(r, 1, Inf, TRUE)
LazyPlus(r) == Rep(r, 1, Inf, FALSE)
Opt(r) == Rep(r, 0, 1, TRUE)
WordBoundary == [t |-> "wb"]
EndOfString == [t |-> "eos"]
Eps == [t |-> "eps"]

RECURSIVE CatAll(_)
CatAll(rs) == IF Len(rs) = 1 THEN rs[1] ELSE Cat(rs[1], CatAll(Tail(rs)))
\* a literal string
Lit(str) == CatAll([i \in 1..Len(str) |-> Chr(str[i])])

\* whether character c is in class cs; under re.IGNORECASE both cases of c count
InClass(c, cs, ic) == c \in cs \/ (ic /\ (ToLower(c) \in cs \/ ToUpper(c) \in cs))

IsWordAt(s, i) == i >= 1 /\ i <= Len(s) /\ s[i] \in Word

\* Ends(re, s, i, ic): the positions where a match of re starting at position i
\* (the index of the next character to read) can end, in the order a
\* backtracking matcher tries them
RECURSIVE Ends(_, _, _, _)
RECURSIVE EndsFrom(_, _, _, _, _, _)
RECURSIVE RepEnds(_, _, _, _, _, _, _)
RECURSIVE RepFrom(_, _, _, _, _, _, _, _, _)

\* the ends of re from each of starts[lo..hi], in that order
EndsFrom(starts, lo, hi, re, s, ic) ==
  IF lo > hi THEN <<>>
  ELSE IF lo = hi THEN Ends(re, s, starts[lo], ic)
  ELSE LET mid == (lo + hi) \div 2
       IN  EndsFrom(starts, lo, mid, re, s, ic) \o EndsFrom(starts, mid + 1, hi, re, s, ic)

RepFrom(starts, lo, hi, r, min, max, greedy, s, ic) ==
  IF lo > hi THEN <<>>
  ELSE IF lo = hi THEN RepEnds(r, min, max, greedy, s, starts[lo], ic)
  ELSE LET mid == (lo + hi) \div 2
       IN  RepFrom(starts, lo, mid, r, min, max, greedy, s, ic)
             \o RepFrom(starts, mid + 1, hi, r, min, max, greedy, s, ic)

\* the end of the run of characters of class cs that starts at position i,
\* found a block of characters at a time
RECURSIVE RunEnd(_, _, _, _)
RunEnd(s, i, cs, ic) ==
  LET last == IF i + 7 < Len(s) THEN i + 7 ELSE Len(s)
      stops == {j \in i..last : ~InClass(s[j], cs, ic)}
  IN  IF stops # {} THEN MinOf(stops)
      ELSE IF last = Len(s) THEN Len(s) + 1
      ELSE RunEnd(s, last + 1, cs, ic)

\* r{min,max} for a one-character class r: the run's prefixes of a permitted
\* length, longest first when greedy and shortest first when lazy
ClassRepEnds(cs, min, max, greedy, s, i, ic) ==
  LET run == RunEnd(s, i, cs, ic) - i
      hi == IF max = Inf \/ run < max THEN run ELSE max
  IN  IF hi < min THEN <<>>
      ELSE [k \in 1..(hi - min + 1) |-> IF greedy THEN i + hi - (k - 1) ELSE i + min + (k - 1)]

RepEnds(r, min, max, greedy, s, i, ic) ==
  IF r.t = "set" THEN ClassRepEnds(r.cs, min, max, greedy, s, i, ic)
  ELSE
  LET next == SelectSeq(Ends(r, s, i, ic), LAMBDA e : e > i)
      more ==
        IF max = 0 THEN <<>>
        ELSE RepFrom(next, 1, Len(next), r,
                     IF min > 0 THEN min - 1 ELSE 0,
                     IF max = Inf THEN Inf ELSE max - 1, greedy, s, ic)
  IN  IF min > 0 THEN more
      ELSE IF greedy THEN more \o <<i>> ELSE <<i>> \o more

Ends(re, s, i, ic) ==
  CASE re.t = "set" -> IF i <= Len(s) /\ InClass(s[i], re.cs, ic) THEN <<i + 1>> ELSE <<>>
    [] re.t = "cat" -> LET mids == Ends(re.a, s, i, ic)
                       IN  EndsFrom(mids, 1, Len(mids), re.b, s, ic)
    [] re.t = "alt" -> Ends(re.a, s, i, ic) \o Ends(re.b, s, i, ic)
    [] re.t = "rep" -> RepEnds(re.r, re.min, re.max, re.greedy, s, i, ic)
    [] re.t = "wb"  -> IF IsWordAt(s, i - 1) # IsWordAt(s, i) THEN <<i>> ELSE <<>>
    [] re.t = "eos" -> IF i = Len(s) + 1 \/ (i = Len(s) /\ s[i] = "\n") THEN <<i>> ELSE <<>>
    [] re.t = "eps" -> <<i>>

\* A pattern with its capturing group marked: pre (group) post.
Pattern(pre, grp, post) == [pre |-> pre, grp |-> grp, post |-> post]

\* The match at position i, if any: <<[gs, ge, e]>> with the group spanning
\* s[gs..ge-1] and the match ending before e; <<>> when there is none.
\* the first end of the group, in the matcher's order, after which post matches
MatchGrp(gs, grpEnds, post, s, ic) ==
  Bind([k \in 1..Len(grpEnds) |-> Ends(post, s, grpEnds[k], ic)], LAMBDA posts :
    Bind({k \in 1..Len(grpEnds) : posts[k] # <<>>}, LAMBDA ok :
      IF ok = {} THEN <<>>
      ELSE <<[gs |-> gs, ge |-> grpEnds[MinOf(ok)], e |-> posts[MinOf(ok)][1]]>>))

\* the first end of pre, in the matcher's order, after which group and post match
MatchAt(p, s, i, ic) ==
  Bind(Ends(p.pre, s, i, ic), LAMBDA preEnds :
    Bind([k \in 1..Len(preEnds) |->
            MatchGrp(preEnds[k], Ends(p.grp, s, preEnds[k], ic), p.post, s, ic)],
         LAMBDA ms :
           Bind({k \in 1..Len(preEnds) : ms[k] # <<>>}, LAMBDA ok :
             IF ok = {} THEN <<>> ELSE ms[MinOf(ok)])))

\* re.findall: the group of every non-overlapping match, scanning left to right
\* the match at every position where there is one
Matches(p, s, ic) ==
  Bind([j \in 1..(Len(s) + 1) |-> MatchAt(p, s, j, ic)], LAMBDA at :
    [j \in {k \in 1..(Len(s) + 1) : at[k] # <<>>} |-> at[j][1]])

\* the non-overlapping matches from position i on, scanning left to right
RECURSIVE Scanned(_, _)
Scanned(ms, i) ==
  LET starts == {j \in DOMAIN ms : j >= i}
  IN  IF starts = {} THEN <<>>
      ELSE LET j == MinOf(starts)
           IN  <<ms[j] @@ [s |-> j]>> \o Scanned(ms, IF ms[j].e > j THEN ms[j].e ELSE j + 1)

\* re.findall: the group of every non-overlapping match
FindAll(p, s, ic) ==
  Bind(Scanned(Matches(p, s, ic), 1), LAMBDA found :
    [k \in 1..Len(found) |-> SubSeq(s, found[k].gs, found[k].ge - 1)])

\* re.sub(p, '', s): s without its matches; the pieces from match k on, the
\* text before position pos being done
RECURSIVE SubPieces(_, _, _, _)
SubPieces(found, k, s, pos) ==
  IF k > Len(found) THEN SubSeq(s, pos, Len(s))
  ELSE SubSeq(s, pos, found[k].s - 1) \o SubPieces(found, k + 1, s, found[k].e)
ReSubEmpty(p, s, ic) == SubPieces(Scanned(Matches(p, s, ic), 1), 1, s, 1)

\* re.split(p, s)[0]: s up to the start of the leftmost match
ReSplitFirst(p, s, ic) ==
  Bind(Scanned(Matches(p, s, ic), 1), LAMBDA found :
    IF found = <<>> THEN s ELSE SubSeq(s, 1, found[1].s - 1))

(***************************************************************************)
(* EntityExtractor: cleaning rules                                         *)
(***************************************************************************)
\* None for a str-valued field: a one-element sequence no str equals
NoneStr == <<"None">>

\* the length limits of _clean_entity_name
MaxEntityLen == 100
MinEntityLen == 3

\* self.corporate_suffixes
corporate_suffixes ==
  << <<"I","n","c">>, <<"C","o","r","p">>, <<"L","L","C">>, <<"L","t","d">>,
     <<"G","m","b","H">>, <<"A","G">>, <<"S","A">>, <<"S","A","S">>,
     <<"S","p","A">>, <<"B","V">>, <<"N","V">>, <<"P","t","y">>, <<"P","L","C">>,
     <<"S","E">>, <<"L","i","m","i","t","e","d">>,
     <<"C","o","r","p","o","r","a","t","i","o","n">>,
     <<"C","o","m","p","a","n","y">>,
     <<"I","n","c","o","r","p","o","r","a","t","e","d">> >>

\* _has_corporate_suffix
HasCorporateSuffix(name) ==
  LET name_lower == StrLower(name)
  IN  \E k \in 1..Len(corporate_suffixes) :
        \/ EndsWith(name_lower, StrLower(corporate_suffixes[k]))
        \/ EndsWith(name_lower, StrLower(corporate_suffixes[k]) \o <<".">>)

\* r'\s*[\|–\-:]\s*'
TitleSeparator ==
  Pattern(Eps,
          Cat(Star(Set(Space)), Cat(Set({"|", cEnDash, "-", ":"}), Star(Set(Space)))),
          Eps)

\* prefixes = ['Welcome to', 'Home', 'About', 'Official Website of']
prefixes ==
  << <<"W","e","l","c","o","m","e"," ","t","o">>,
     <<"H","o","m","e">>,
     <<"A","b","o","u","t">>,
     <<"O","f","f","i","c","i","a","l"," ","W","e","b","s","i","t","e"," ","o","f">> >>

\* marketing_terms = ['Services', 'Solutions', 'Products', 'Website']
marketing_terms ==
  << <<"S","e","r","v","i","c","e","s">>,
     <<"S","o","l","u","t","i","o","n","s">>,
     <<"P","r","o","d","u","c","t","s">>,
     <<"W","e","b","s","i","t","e">> >>

\* f'\\s+{term}\\s*$'
MarketingTerm(term) ==
  Pattern(Eps,
          Cat(Plus(Set(Space)), Cat(Lit(term), Cat(Star(Set(Space)), EndOfString))),
          Eps)

\* a faulty variant: the title cleaning without the removal of leading phrases
RemovePrefixesSkipped(cleaned, k) == cleaned

\* the loop over prefixes, from prefix k on
RECURSIVE RemovePrefixes(_, _)
RemovePrefixes(cleaned, k) ==
  IF k > Len(prefixes) THEN cleaned
  ELSE IF StartsWith(StrLower(cleaned), StrLower(prefixes[k]))
       THEN RemovePrefixes(Strip(DropFirst(cleaned, Len(prefixes[k]))), k + 1)
       ELSE RemovePrefixes(cleaned, k + 1)

\* the loop over marketing_terms, from term k on
RECURSIVE RemoveMarketingTerms(_, _)
RemoveMarketingTerms(cleaned, k) ==
  IF k > Len(marketing_terms) THEN cleaned
  ELSE RemoveMarketingTerms(ReSubEmpty(MarketingTerm(marketing_terms[k]), cleaned, TRUE),
                            k + 1)

\* _clean_title_entity
CleanTitleEntity(title) ==
  IF title = <<>> THEN NoneStr
  ELSE Bind(RemoveMarketingTerms(
              RemovePrefixes(ReSplitFirst(TitleSeparator, title, FALSE), 1), 1),
            LAMBDA cleaned : IF Len(cleaned) > 2 THEN cleaned ELSE NoneStr)

\* r'[.,;!?]+$'
TrailingPunctuation ==
  Pattern(Eps, Cat(Plus(Set({".", ",", ";", "!", "?"})), EndOfString), Eps)

\* _clean_entity_name
CleanEntityName(name) ==
  IF name = NoneStr \/ name = <<>> THEN NoneStr
  ELSE Bind(ReSubEmpty(TrailingPunctuation, JoinSpace(StrSplit(name)), FALSE),
            LAMBDA trimmed :
              IF Len(trimmed) > MaxEntityLen THEN NoneStr
              ELSE IF Len(trimmed) < MinEntityLen THEN NoneStr
              ELSE trimmed)

(***************************************************************************)
(* EntityExtractor: the patterns of extract_from_html                      *)
(***************************************************************************)
\* [A-Za-z0-9\s&.,\'-]
NameClass == Upper \cup Lower \cup Digit \cup Space \cup {"&", ".", ",", "'", "-"}

\* ([A-Z][A-Za-z0-9\s&.,\'-]+?)
NameGroup == Cat(Set(Upper), LazyPlus(Set(NameClass)))

\* r'(?:©|Copyright)\s+(?:\d{4}\s+)?([A-Z][A-Za-z0-9\s&.,\'-]+?)(?:\.|,|\s+All|\s+Rights)'
CopyrightPattern1 ==
  Pattern(Cat(Alt(Chr(cCopy), Lit(<<"C","o","p","y","r","i","g","h","t">>)),
              Cat(Plus(Set(Space)),
                  Opt(Cat(Rep(Set(Digit), 4, 4, TRUE), Plus(Set(Space)))))),
          NameGroup,
          Alt(Chr("."),
              Alt(Chr(","),
                  Alt(Cat(Plus(Set(Space)), Lit(<<"A","l","l">>)),
                      Cat(Plus(Set(Space)), Lit(<<"R","i","g","h","t","s">>))))))

\* r'©\s*(\d{4})?\s*([A-Z][A-Za-z0-9\s&.,\'-]+?)(?:\.|,|\s|$)'
CopyrightPattern2 ==
  Pattern(Cat(Chr(cCopy),
              Cat(Star(Set(Space)),
                  Cat(Opt(Rep(Set(Digit), 4, 4, TRUE)), Star(Set(Space))))),
          NameGroup,
          Alt(Chr("."), Alt(Chr(","), Alt(Set(Space), EndOfString))))

copyright_patterns == <<CopyrightPattern1, CopyrightPattern2>>

\* r'\b[A-Za-z0-9._%+-]+@[A-Za-z0-9.-]+\.[A-Z|a-z]{2,}\b'
email_pattern ==
  Pattern(Eps,
          CatAll(<<WordBoundary,
                   Plus(Set(Upper \cup Lower \cup Digit \cup {".", "_", "%", "+", "-"})),
                   Chr("@"),
                   Plus(Set(Upper \cup Lower \cup Digit \cup {".", "-"})),
                   Chr("."),
                   Rep(Set(Upper \cup Lower \cup {"|"}), 2, Inf, TRUE),
                   WordBoundary>>),
          Eps)

\* r'[\+]?[(]?[0-9]{1,3}[)]?[-\s\.]?[(]?[0-9]{1,3}[)]?[-\s\.]?[0-9]{3,4}[-\s\.]?[0-9]{3,4}'
phone_pattern ==
  Pattern(Eps,
          CatAll(<<Opt(Chr("+")), Opt(Chr("(")), Rep(Set(Digit), 1, 3, TRUE), Opt(Chr(")")),
                   Opt(Set(Space \cup {"-", "."})),
                   Opt(Chr("(")), Rep(Set(Digit), 1, 3, TRUE), Opt(Chr(")")),
                   Opt(Set(Space \cup {"-", "."})),
                   Rep(Set(Digit), 3, 4, TRUE),
                   Opt(Set(Space \cup {"-", "."})),
                   Rep(Set(Digit), 3, 4, TRUE)>>),
          Eps)

(***************************************************************************)
(* Python's set: iteration order                                           *)
(* list(set(xs)) keeps one copy of each element, in an order fixed by the   *)
(* elements' hashes.  str hashes are salted per process (PYTHONHASHSEED),   *)
(* so the order is a function of the process's seed and of the elements:    *)
(* seed k gives the k-th permutation (factorial number system) of the       *)
(* elements in insertion order, seed 0 the insertion order itself.          *)
(***************************************************************************)
RECURSIVE DedupInOrder(_)
DedupInOrder(xs) ==
  IF xs = <<>> THEN <<>>
  ELSE LET front == DedupInOrder(SubSeq(xs, 1, Len(xs) - 1))
           last == xs[Len(xs)]
       IN  IF \E i \in 1..Len(front) : front[i] = last THEN front ELSE Append(front, last)

RemoveAt(xs, i) == SubSeq(xs, 1, i - 1) \o SubSeq(xs, i + 1, Len(xs))

RECURSIVE NthPerm(_, _)
NthPerm(xs, k) ==
  IF xs = <<>> THEN <<>>
  ELSE LET i == (k % Len(xs)) + 1
       IN  <<xs[i]>> \o NthPerm(RemoveAt(xs, i), k \div Len(xs))

\* a faulty variant: list(xs), every occurrence kept
ListOfAll(xs, seed) == xs

\* list(set(xs)) in a process whose hash seed is seed
ListOfSet(xs, seed) == NthPerm(DedupInOrder(xs), seed)

(***************************************************************************)
(* EntityExtractor.extract_from_html                                       *)
(* A document is the tree BeautifulSoup(html_content, 'lxml') builds:       *)
(*   title    the text of the first <title>, NoneStr when there is none     *)
(*   metas    the <meta> elements: [name, property, content], an absent    *)
(*            attribute being None (NoneStr for content)                    *)
(*   scripts  the <script> and <style> elements: [tag, type, string] where  *)
(*            string.kind tells what json.loads makes of the element's      *)
(*            .string: "none" (.string is None: an empty or multi-child     *)
(*            element), "invalid", "object" (with its @type and name) or    *)
(*            "array"                                                       *)
(*   body     the text of the body, script and style text left out          *)
(***************************************************************************)
\* a faulty variant: the script and style elements left in the tree
DecomposeSkipped(scripts) == scripts

\* soup(["script", "style"]) ... script.decompose(): the elements that remain
Decompose(scripts) == SelectSeq(scripts, LAMBDA el : el.tag \notin {"script", "style"})

\* soup.find_all('script', type='application/ld+json')
FindJsonLd(scripts) ==
  SelectSeq(scripts, LAMBDA el : el.tag = "script" /\ el.type = "application/ld+json")

\* soup.get_text()
GetText(title, body) == (IF title = NoneStr THEN <<>> ELSE title) \o body

\* bool(x) of an Optional[str]
Truthy(x) == x # NoneStr /\ x # <<>>

\* result as line 70 makes it; raised is the exception on its way out, if any
NewResult(d) ==
  [raised |-> None, domain |-> d.domain, title |-> NoneStr, meta_tags |-> <<>>,
   structured_data |-> <<>>, company_name |-> NoneStr, primary_entity |-> NoneStr,
   entities |-> <<>>, addresses |-> <<>>, emails |-> <<>>, phones |-> <<>>]

\* lines 83-90: the title and its candidate
TitleStep(d, res) ==
  IF d.title = NoneStr THEN res
  ELSE Bind(Strip(d.title), LAMBDA title :
         Bind(CleanTitleEntity(title), LAMBDA entity :
           [res EXCEPT !.title = title,
                       !.entities = IF Truthy(entity) THEN Append(@, entity) ELSE @]))

\* lines 94-105: one meta element
MetaStep(meta, res) ==
  LET name == IF meta.name \notin {None, ""} THEN meta.name ELSE meta.property
  IN  IF name \notin {None, ""} /\ Truthy(meta.content)
      THEN Bind(IF name = "og:site_name" THEN CleanEntityName(meta.content) ELSE NoneStr,
                LAMBDA entity :
                  [res EXCEPT
                     !.meta_tags = (name :> meta.content) @@ @,
                     !.entities = IF Truthy(entity) THEN Append(@, entity) ELSE @,
                     !.primary_entity = IF Truthy(entity) /\ ~Truthy(@) THEN entity ELSE @])
      ELSE res

\* lines 93-105: the loop over the meta elements, from element k on
RECURSIVE MetaLoop(_, _, _)
MetaLoop(metas, k, res) ==
  IF k > Len(metas) THEN res ELSE MetaLoop(metas, k + 1, MetaStep(metas[k], res))

\* lines 109-122: one JSON-LD element
JsonLdStep(data, res) ==
  CASE data.kind = "none" ->
         \* json.loads(None): TypeError, which the except clause does not name
         [res EXCEPT !.raised = "TypeError"]
    [] data.kind = "invalid" ->
         \* json.JSONDecodeError: pass
         res
    [] data.kind = "array" ->
         [res EXCEPT !.structured_data = Append(@, data)]
    [] data.kind = "object" ->
         IF data.type = "Organization" /\ Truthy(data.name)
         THEN [res EXCEPT !.structured_data = Append(@, data),
                          !.entities = Append(@, data.name),
                          !.company_name = IF ~Truthy(@) THEN data.name ELSE @]
         ELSE [res EXCEPT !.structured_data = Append(@, data)]

\* lines 108-122: the loop over the JSON-LD elements, from element k on
RECURSIVE JsonLdLoop(_, _, _)
JsonLdLoop(els, k, res) ==
  IF k > Len(els) \/ res.raised # None THEN res
  ELSE JsonLdLoop(els, k + 1, JsonLdStep(els[k].string, res))

\* lines 131-137: the candidates of one copyright pattern, from match k on
RECURSIVE CopyrightEntities(_, _)
CopyrightEntities(matches, k) ==
  IF k > Len(matches) THEN <<>>
  ELSE Bind(CleanEntityName(matches[k]), LAMBDA entity :
         IF Truthy(entity) /\ Len(entity) > 2 THEN <<entity>> ELSE <<>>)
       \o CopyrightEntities(matches, k + 1)

CopyrightCandidates(text) ==
  CopyrightEntities(FindAll(copyright_patterns[1], text, TRUE), 1)
    \o CopyrightEntities(FindAll(copyright_patterns[2], text, TRUE), 1)

\* lines 155-158: the first entity with a corporate suffix, NoneStr if none
RECURSIVE FirstWithSuffix(_, _)
FirstWithSuffix(entities, k) ==
  IF k > Len(entities) THEN NoneStr
  ELSE IF HasCorporateSuffix(entities[k]) THEN entities[k]
  ELSE FirstWithSuffix(entities, k + 1)

\* a faulty variant: the selection without its fallback to the first entity
SelectPrimaryNoFallback(primary, entities) ==
  IF ~Truthy(primary) /\ entities # <<>> THEN FirstWithSuffix(entities, 1) ELSE primary

\* a faulty variant: the selection made whatever the meta loop set
SelectPrimaryUnguarded(primary, entities) ==
  IF entities # <<>>
  THEN IF ~Truthy(FirstWithSuffix(entities, 1)) THEN entities[1]
       ELSE FirstWithSuffix(entities, 1)
  ELSE primary

\* lines 152-162: the primary entity, given the one the meta loop set
\* (NoneStr if none) and the deduplicated entities
SelectPrimary(primary, entities) ==
  IF ~Truthy(primary) /\ entities # <<>>
  THEN LET suffixed == FirstWithSuffix(entities, 1)
       IN  IF ~Truthy(suffixed) THEN entities[1] ELSE suffixed
  ELSE primary

\* lines 125-137: the candidates of the copyright notices
CopyrightStep(text, res) ==
  IF res.raised # None THEN res
  ELSE [res EXCEPT !.entities = @ \o CopyrightCandidates(text)]

\* lines 64-137: result after the sources have been scanned
Scan(d) ==
  CopyrightStep(GetText(d.title, d.body),
    JsonLdLoop(FindJsonLd(Decompose(d.scripts)), 1,
      MetaLoop(d.metas, 1, TitleStep(d, NewResult(d)))))

\* the value of result['entities'] before line 150: the candidates in the
\* order the sources are scanned
Discovered(d) == Scan(d).entities

\* lines 139-162: e-mails, phones, deduplication and the primary entity
Finish(text, seed, res) ==
  IF res.raised # None THEN [raised |-> res.raised, value |-> <<>>]
  ELSE LET entities == ListOfSet(SelectSeq(res.entities, Truthy), seed)
       IN  [raised |-> None,
            value |->
              [domain |-> res.domain,
               title |-> res.title,
               meta_tags |-> res.meta_tags,
               structured_data |-> res.structured_data,
               company_name |-> res.company_name,
               primary_entity |-> SelectPrimary(res.primary_entity, entities),
               entities |-> entities,
               addresses |-> res.addresses,
               emails |-> TakeFirst(ListOfSet(FindAll(email_pattern, text, FALSE), seed), 5),
               phones |-> TakeFirst(ListOfSet(FindAll(phone_pattern, text, FALSE), seed), 5)]]

\* extract_from_html in a process whose hash seed is seed:
\* [raised, value], value being the returned dict when raised = None
ExtractFromHtml(d, seed) == Finish(GetText(d.title, d.body), seed, Scan(d))

(***************************************************************************)
(* Documents given to extract_from_html                                    *)
(***************************************************************************)
sAcme == <<"A","c","m","e">>
sAcmeCorp == <<"A","c","m","e"," ","C","o","r","p">>
sAcmeCorporation == <<"A","c","m","e"," ","C","o","r","p","o","r","a","t","i","o","n">>
sShellBrand == <<"S","h","e","l","l"," ","B","r","a","n","d">>
sAcmeWidgetsLtd == <<"A","c","m","e"," ","W","i","d","g","e","t","s"," ","L","t","d">>
sZetaPartners == <<"Z","e","t","a"," ","P","a","r","t","n","e","r","s">>
sAcmeHoldingsInc ==
  <<"A","c","m","e"," ","H","o","l","d","i","n","g","s"," ","I","n","c">>

\* "Welcome to Acme Corp"
tWelcomeAcme == prefixes[1] \o <<" ">> \o sAcmeCorp
\* "Acme Widgets Ltd | Home"
tAcmeLtdHome == sAcmeWidgetsLtd \o <<" ","|"," ","H","o","m","e">>
\* a title of MaxEntityLen + 1 characters
tLong == [i \in 1..(MaxEntityLen + 1) |-> IF i = 1 THEN "A" ELSE "a"]

Titles == {NoneStr, tWelcomeAcme, sShellBrand, tAcmeLtdHome, tLong}

Meta(name, property, content) == [name |-> name, property |-> property, content |-> content]
\* <meta property='og:site_name' content='Acme Corporation'>
mAcme == Meta(None, "og:site_name", sAcmeCorporation)
\* <meta name='description' content='Widgets'>
mDescription == Meta("description", None, <<"W","i","d","g","e","t","s">>)
\* <meta name='og:site_name' content='Shell plc.'>
mShell == Meta("og:site_name", None, <<"S","h","e","l","l"," ","p","l","c",".">>)

\* <meta property='og:site_name' content='AB'>
mShort == Meta(None, "og:site_name", <<"A","B">>)

MetaLists == {<<>>, <<mAcme>>, <<mDescription, mShell>>, <<mShort, mShell, mAcme>>}

Json(kind, type, name) == [kind |-> kind, type |-> type, name |-> name]
Element(tag, type, string) == [tag |-> tag, type |-> type, string |-> string]
\* <script type="application/ld+json">{"@type": "Organization", "name": "Acme Holdings Inc"}</script>
eOrganization ==
  Element("script", "application/ld+json", Json("object", "Organization", sAcmeHoldingsInc))
\* <script type="application/ld+json"></script>
eEmptyLd == Element("script", "application/ld+json", Json("none", None, NoneStr))
\* <script type="application/ld+json">{"@type": </script>
eBrokenLd == Element("script", "application/ld+json", Json("invalid", None, NoneStr))
\* <style>...</style>
eStyle == Element("style", None, Json("invalid", None, NoneStr))

ScriptLists == {<<>>, <<eStyle, eOrganization, eBrokenLd, eEmptyLd>>}

\* "© 2024 Acme Widgets Ltd. All rights reserved"
bAcmeNotice ==
  <<cCopy," ","2","0","2","4"," ">> \o sAcmeWidgetsLtd
    \o <<"."," ","A","l","l"," ","r","i","g","h","t","s"," ","r","e","s","e","r","v","e","d">>
\* "Copyright Zeta Partners, write to info@zeta.com or sales@zeta.com or call +1 555 123 4567"
bZetaContact ==
  <<"C","o","p","y","r","i","g","h","t"," ">> \o sZetaPartners
    \o <<","," ","w","r","i","t","e"," ","t","o"," ",
         "i","n","f","o","@","z","e","t","a",".","c","o","m"," ","o","r"," ",
         "s","a","l","e","s","@","z","e","t","a",".","c","o","m"," ","o","r"," ",
         "c","a","l","l"," ","+","1"," ","5","5","5"," ","1","2","3"," ","4","5","6","7">>
\* six addresses: "a@x.io b@x.io c@x.io d@x.io e@x.io f@x.io "
RECURSIVE Concat(_)
Concat(ss) == IF ss = <<>> THEN <<>> ELSE Head(ss) \o Concat(Tail(ss))
bManyContacts == Concat([i \in 1..6 |-> <<LowerSeq[i],"@","x",".","i","o"," ">>])
\* seven addresses and seven numbers, the first of each written twice:
\* "a@x.io 11234567,a@x.io 11234567,b@x.io 21234567,...,f@x.io 61234567,"
bRepeatedContacts ==
  Concat([i \in 1..7 |->
            Bind(IF i = 1 THEN 1 ELSE i - 1, LAMBDA k :
              <<LowerSeq[k],"@","x",".","i","o"," ",
                DigitSeq[k + 1],"1","2","3","4","5","6","7",",">>)])

Bodies == {<<>>, bAcmeNotice, bZetaContact, bManyContacts, bRepeatedContacts}

Docs ==
  {[domain |-> "acme.com", title |-> t, metas |-> m, scripts |-> sc, body |-> b] :
     t \in Titles, m \in MetaLists, sc \in ScriptLists, b \in Bodies}

\* the document BeautifulSoup makes of the empty string
EmptyDoc ==
  [domain |-> "acme.com", title |-> NoneStr, metas |-> <<>>, scripts |-> <<>>, body |-> <<>>]

(***************************************************************************)
(* The processing service: one process serving extraction calls            *)
(***************************************************************************)
\* the hash seeds a process may start with: 0..MaxSeed
MaxSeed == 2
HashSeeds == 0..MaxSeed
\* the calls made on one document
MaxCalls == 2

VARIABLES
  hashSeed,    \* the str hash seed of the running process
  doc,         \* the document the calls are made on
  calls,       \* the number of calls made so far
  result,      \* the outcome of the last call
  prevResult,  \* the outcome of the call before it
  hashInput,   \* the two domains handed to generate_domain_hash
  hashOutput,  \* the two digests returned for them
  domains,     \* the rows of table domains, by id
  gleif_candidates,  \* the rows of table gleif_candidates
  hashResponse,      \* the answer of GET /domains/{domain}/hash, if the last
                     \* request to the services was one
  reportResponse,    \* the answer of a report or export over domains, if the
                     \* last request was one
  shellRow,          \* the shell.com row of domains with its gleif_candidates
  shellResponse,     \* the last answer of GET /analytics/shell-analysis
  langModel,         \* self.model of the LangExtractService of the process
  langSeed,          \* the str hash seed of that process
  langCall,          \* the arguments of its extract_entities call
  langReply,         \* what the collaborator did with the prompt
  langResult,        \* the outcome of the call
  taskDoc,           \* the document of each invocation running in the process
  taskPc,            \* where each invocation stands
  frames,            \* the local variables of the invocations, by frame
  suffixName,        \* the name handed to _has_corporate_suffix
  suffixAnswer,      \* what it returned
  titleText,         \* the title handed to _clean_title_entity
  titleAnswer,       \* what it returned
  db_pool,           \* the connection pool of the processing service
  dumps,             \* the dump tables, by table name
  background_tasks,  \* the runs of process_dump_async scheduled so far
  beta_v2_processing_results,  \* the table of processing results
  processResponse    \* the response to the last /process request

extractVars == <<hashSeed, doc, calls, result, prevResult>>
identityVars == <<hashInput, hashOutput>>
historyVars == <<domains, gleif_candidates, hashResponse, reportResponse>>
shellVars == <<shellRow, shellResponse>>
langVars == <<langModel, langSeed, langCall, langReply, langResult>>
taskVars == <<taskDoc, taskPc, frames>>
ruleVars == <<suffixName, suffixAnswer, titleText, titleAnswer>>
pipeVars ==
  <<db_pool, dumps, background_tasks, beta_v2_processing_results, processResponse>>
serviceVars == <<taskVars, ruleVars, pipeVars>>
vars == <<extractVars, identityVars, historyVars, shellVars, langVars, serviceVars>>

NoCall == [raised |-> "NoCall", value |-> <<>>]
NoResponse == [status_code |-> 0]

\* the components a specification leaves out stay as constructed
ExtractIdle ==
  /\ hashSeed = 0
  /\ doc = <<>>
  /\ calls = 0
  /\ result = NoCall
  /\ prevResult = NoCall

IdentityIdle == hashInput = <<>> /\ hashOutput = <<>>

HistoryIdle ==
  /\ domains = <<>>
  /\ gleif_candidates = {}
  /\ hashResponse = NoResponse
  /\ reportResponse = NoResponse

ShellIdle == shellRow = <<>> /\ shellResponse = NoResponse

NoReply == [kind |-> "no call"]
LangIdle ==
  /\ langModel = <<>>
  /\ langSeed = 0
  /\ langCall = <<>>
  /\ langReply = NoReply
  /\ langResult = NoCall

TasksIdle == taskDoc = <<>> /\ taskPc = <<>> /\ frames = <<>>
NoAnswerYet == [pending |-> TRUE]
RulesIdle ==
  /\ suffixName = <<>> /\ suffixAnswer = NoAnswerYet
  /\ titleText = <<>> /\ titleAnswer = NoCall
NoDumps ==
  [table \in {"crawlee_dumps", "scrapy_crawls", "playwright_dumps", "axios_cheerio_dumps"}
     |-> {}]
PipeIdle ==
  /\ db_pool = "None"
  /\ dumps = NoDumps
  /\ background_tasks = <<>>
  /\ beta_v2_processing_results = <<>>
  /\ processResponse = NoResponse
ServiceIdle == TasksIdle /\ RulesIdle /\ PipeIdle

ExtractInit ==
  /\ hashSeed \in HashSeeds
  /\ doc \in Docs
  /\ calls = 0
  /\ result = NoCall
  /\ prevResult = NoCall
  /\ IdentityIdle /\ HistoryIdle /\ ShellIdle /\ LangIdle /\ ServiceIdle

\* extractor.extract_from_html(html_content, domain)
CallExtract ==
  /\ calls < MaxCalls
  /\ result' = ExtractFromHtml(doc, hashSeed)
  /\ prevResult' = result
  /\ calls' = calls + 1
  /\ UNCHANGED <<hashSeed, doc, identityVars, historyVars, shellVars, langVars, serviceVars>>

\* the service process is started anew (uvicorn.run): a fresh hash seed
Restart ==
  /\ \E seed \in HashSeeds \ {hashSeed} : hashSeed' = seed
  /\ UNCHANGED <<doc, calls, result, prevResult, identityVars, historyVars, shellVars, langVars, serviceVars>>

ExtractNext == CallExtract \/ Restart

SpecExtract == ExtractInit /\ [][ExtractNext]_vars

(***************************************************************************)
(* Properties of extract_from_html                                         *)
(***************************************************************************)
Returned == result.raised = None
Entities == result.value.entities
Primary == result.value.primary_entity
EntitySet == {Entities[i] : i \in 1..Len(Entities)}
\* the candidates in discovery order, each distinct text once
DiscoveryOrder == DedupInOrder(SelectSeq(Discovered(doc), Truthy))

\* C1: every returned entity has between 3 and 100 characters, whatever its
\* source.
C1_EntityLengthBound ==
  Returned =>
    \A i \in 1..Len(Entities) :
      Len(Entities[i]) >= MinEntityLen /\ Len(Entities[i]) <= MaxEntityLen

\* C2: a non-empty entities list comes with a primary entity that is one of
\* the entities; an empty list comes with no primary entity.
C2_PrimaryAmongEntities ==
  Returned =>
    /\ Entities # <<>> => (Primary # NoneStr /\ Primary \in EntitySet)
    /\ Entities = <<>> => Primary = NoneStr

C2_Witness == Returned /\ Len(Entities) >= 2 /\ Primary = Entities[2]

\* C3: when no meta signal set the primary entity, it is the first candidate
\* in discovery order with a corporate suffix, or, if none has one, the first
\* candidate in discovery order.
C3_PrimaryByDiscoveryOrder ==
  (Returned /\ Scan(doc).primary_entity = NoneStr) =>
    Primary = SelectPrimary(NoneStr, DiscoveryOrder)

\* C4: the entities list has no duplicate and no empty entry, and lists the
\* distinct candidates in the order of their first discovery.
C4_EntitiesInDiscoveryOrder ==
  Returned =>
    /\ \A i, j \in 1..Len(Entities) : Entities[i] = Entities[j] => i = j
    /\ \A i \in 1..Len(Entities) : Truthy(Entities[i])
    /\ Entities = DiscoveryOrder

\* the document <title>Welcome to Acme Corp</title>
\* <meta property='og:site_name' content='Acme Corporation'> of acme.com
AcmeDoc ==
  [domain |-> "acme.com", title |-> tWelcomeAcme, metas |-> <<mAcme>>,
   scripts |-> <<>>, body |-> <<>>]

C6_Deterministic == calls = 2 => result = prevResult

\* C7: every call returns a result and raises nothing; for the empty document
\* the result has no entity and no primary entity.
C7_NeverRaises ==
  calls >= 1 =>
    /\ Returned
    /\ doc = EmptyDoc => (Entities = <<>> /\ Primary = NoneStr)

C7_Witness ==
  /\ calls >= 1 /\ Returned
  /\ \E k \in 1..Len(doc.scripts) : doc.scripts[k] = eEmptyLd

(***************************************************************************)
(* domain_hash_service: generate_domain_hash                                *)
(***************************************************************************)
\* str.encode(): the UTF-8 bytes of a str; on the ASCII characters of the
\* model one byte per character, kept apart from the str by its tag
Encode(s) == [bytes |-> s]

\* hashlib.md5(data).hexdigest(): the digest is not computed; it is held as
\* the one-to-one image of the bytes digested (MD5 idealised as free of
\* collisions)
Md5HexDigest(data) == [md5 |-> data.bytes]

\* the digest of the domain as given, case kept
GenerateDomainHashCaseKept(domain) == Md5HexDigest(Encode(Strip(domain)))

\* hashlib.md5(domain.lower().strip().encode()).hexdigest()
GenerateDomainHash(domain) == Md5HexDigest(Encode(Strip(StrLower(domain))))

dShellCom == <<"s","h","e","l","l",".","c","o","m">>
dShellComUpperTrail == <<"S","h","e","l","l",".","C","O","M"," ">>
dShellComLead == <<" ","s","h","e","l","l",".","c","o","m">>
dShellComCapsNl == <<"S","H","E","L","L",".","C","O","M","\n">>
dShellCo == <<"s","h","e","l","l",".","c","o">>
dShellCoCaps == <<"S","h","e","l","l",".","C","o">>
dAcmeCom == <<"a","c","m","e",".","c","o","m">>
dShellInnerSpace == <<"s","h","e","l","l"," ",".","c","o","m">>
dAcmeComCaps == <<"A","C","M","E",".","c","o","m">>
dAbsentOrg == <<"a","b","s","e","n","t",".","o","r","g">>

RawDomains ==
  {dShellCom, dShellComUpperTrail, dShellComLead, dShellComCapsNl, dShellCo,
   dShellCoCaps, dAcmeCom, dShellInnerSpace, dAcmeComCaps, <<>>}

IdentityInit ==
  /\ hashInput \in RawDomains \X RawDomains
  /\ hashOutput = <<>>
  /\ ExtractIdle /\ HistoryIdle /\ ShellIdle /\ LangIdle /\ ServiceIdle

\* generate_domain_hash called on each of the two domains
HashBoth ==
  /\ hashOutput = <<>>
  /\ hashOutput' = <<GenerateDomainHash(hashInput[1]), GenerateDomainHash(hashInput[2])>>
  /\ UNCHANGED <<hashInput, extractVars, historyVars, shellVars, langVars, serviceVars>>

IdentityNext == HashBoth

SpecIdentity == IdentityInit /\ [][IdentityNext]_vars

\* lower(trim(domain)) as the specification words it: trimmed, then lowered
LowerOfTrim(domain) == StrLower(Strip(domain))

\* C8: the identity key depends on lower(trim(domain)) and on nothing else:
\* two domains get the same digest exactly when their trimmed, lower-cased
\* forms are the same string.
C8_KeyOfNormalisedDomain ==
  hashOutput # <<>> =>
    ((hashOutput[1] = hashOutput[2]) <=>
       (LowerOfTrim(hashInput[1]) = LowerOfTrim(hashInput[2])))

\* "Shell.COM " and "shell.com" have been given the same digest
C8_Witness ==
  /\ hashOutput # <<>>
  /\ hashInput = <<dShellComUpperTrail, dShellCom>>
  /\ hashOutput[1] = hashOutput[2]


(***************************************************************************)
(* domain_hash_service: the tables and GET /domains/{domain}/hash           *)
(***************************************************************************)
\* a nullable column: <<>> is NULL, <<v>> holds v
Null == <<>>
Some(v) == <<v>>

\* the rows table domains may hold
MaxRows == 3
BatchIds == {"batch-1", "batch-2"}
ConfidenceScores == {Null, Some(0), Some(40), Some(85)}
StoredDomains == {dShellCom, dShellComUpperTrail, dAcmeCom}
RequestDomains == {dShellComCapsNl, dAcmeCom, dAbsentOrg}
GleifTables ==
  {{}, {[domain_id |-> 1, lei_code |-> "LEI-A"], [domain_id |-> 1, lei_code |-> "LEI-B"]}}

HistoryInit ==
  /\ domains = <<>>
  /\ gleif_candidates \in GleifTables
  /\ hashResponse = NoResponse
  /\ reportResponse = NoResponse
  /\ ExtractIdle /\ IdentityIdle /\ ShellIdle /\ LangIdle /\ ServiceIdle

\* a processing attempt is recorded: the writer of table domains is not part
\* of this repository; it stores the identity key of the domain it processed
\* and stamps the row with the time of the insert
InsertDomain ==
  /\ Len(domains) < MaxRows
  /\ \E domain \in StoredDomains, batch_id \in BatchIds, confidence_score \in ConfidenceScores :
       domains' = Append(domains,
         [id |-> Len(domains) + 1,
          domain |-> domain,
          domain_hash |-> GenerateDomainHash(domain),
          batch_id |-> batch_id,
          status |-> IF confidence_score = Null THEN "failed" ELSE "success",
          company_name |-> IF confidence_score = Null THEN Null
                           ELSE Some(<<"Company", Len(domains) + 1>>),
          confidence_score |-> confidence_score,
          created_at |-> Len(domains) + 1])
  /\ hashResponse' = NoResponse
  /\ reportResponse' = NoResponse
  /\ UNCHANGED <<gleif_candidates, extractVars, identityVars, shellVars, langVars, serviceVars>>

\* SELECT ... FROM domains WHERE domain_hash = :domain_hash
WhereDomainHash(domain_hash) == SelectSeq(domains, LAMBDA r : r.domain_hash = domain_hash)

RECURSIVE Factorial(_)
Factorial(n) == IF n <= 1 THEN 1 ELSE n * Factorial(n - 1)

\* a faulty variant: the rows in any order, as without ORDER BY
AnyOrder(rows) == {NthPerm(rows, k) : k \in 0..(Factorial(Len(rows)) - 1)}

\* ORDER BY created_at DESC: every order of the rows in which created_at
\* does not increase (rows of equal created_at come in any order)
OrderByCreatedAtDesc(rows) ==
  {p \in {NthPerm(rows, k) : k \in 0..(Factorial(Len(rows)) - 1)} :
     \A i \in 1..(Len(p) - 1) : p[i].created_at >= p[i + 1].created_at}

\* COUNT(DISTINCT batch_id) OVER (PARTITION BY domain_hash)
CountDistinctBatch(rows) == Cardinality({rows[i].batch_id : i \in 1..Len(rows)})

\* SELECT COUNT(DISTINCT gc.lei_code) FROM domains d LEFT JOIN
\* gleif_candidates gc ON d.id = gc.domain_id WHERE d.domain_hash = ...
GleifCount(domain_hash) ==
  Cardinality({gc.lei_code : gc \in {c \in gleif_candidates :
     \E i \in 1..Len(domains) :
        domains[i].id = c.domain_id /\ domains[i].domain_hash = domain_hash}})

\* r.confidence_score or 0
ScoreOrZero(r) ==
  IF r.confidence_score = Null \/ r.confidence_score = Some(0) THEN 0
  ELSE r.confidence_score[1]

\* max(results, key=lambda r: r.confidence_score or 0): the first row, in
\* the order of results, of which the key is the largest
BestResult(results) ==
  results[CHOOSE i \in 1..Len(results) :
     /\ \A j \in 1..Len(results) : ScoreOrZero(results[j]) <= ScoreOrZero(results[i])
     /\ \A j \in 1..(i - 1) : ScoreOrZero(results[j]) < ScoreOrZero(results[i])]

\* datetime.isoformat()
IsoFormat(t) == [isoformat |-> t]

\* get_domain_hash(domain)
GetDomainHash ==
  /\ \E domain \in RequestDomains :
       LET domain_hash == GenerateDomainHash(domain)
           matching == WhereDomainHash(domain_hash)
       IN IF matching = <<>>
          THEN hashResponse' = [status_code |-> 404, detail |-> "Domain not found"]
          ELSE \E results \in OrderByCreatedAtDesc(matching), seed \in HashSeeds :
                 LET first_result == results[1]
                     best_result == BestResult(results)
                 IN hashResponse' =
                      [status_code |-> 200,
                       domain |-> domain,
                       domain_hash |-> domain_hash,
                       total_processing_attempts |-> Len(results),
                       batch_count |-> CountDistinctBatch(results),
                       all_batch_ids |->
                         ListOfSet([i \in 1..Len(results) |-> results[i].batch_id], seed),
                       best_company_name |-> best_result.company_name,
                       best_confidence_score |-> best_result.confidence_score,
                       first_seen |-> Some(IsoFormat(results[Len(results)].created_at)),
                       latest_status |-> first_result.status,
                       gleif_candidate_count |-> GleifCount(domain_hash)]
  /\ reportResponse' = NoResponse
  /\ UNCHANGED <<domains, gleif_candidates, extractVars, identityVars, shellVars, langVars, serviceVars>>

HistoryNext == InsertDomain \/ GetDomainHash

SpecHistory == HistoryInit /\ [][HistoryNext]_vars

\* the records the last answer was computed from
Answered == hashResponse.status_code = 200
RecordsOfAnswer == WhereDomainHash(hashResponse.domain_hash)
NonNullScores ==
  {RecordsOfAnswer[i].confidence_score[1] :
     i \in {j \in 1..Len(RecordsOfAnswer) : RecordsOfAnswer[j].confidence_score # Null}}

\* C10: the best record of an answer has the largest non-null confidence of
\* the records of the domain (null only when every confidence is null), is
\* the most recent of the records having it, and gives the best company name.
C10_BestIsLargestNonNull ==
  Answered =>
    /\ NonNullScores = {} => hashResponse.best_confidence_score = Null
    /\ NonNullScores # {} =>
         /\ hashResponse.best_confidence_score # Null
         /\ \A v \in NonNullScores : v <= hashResponse.best_confidence_score[1]
         /\ \E i \in 1..Len(RecordsOfAnswer) :
              /\ RecordsOfAnswer[i].confidence_score = hashResponse.best_confidence_score
              /\ RecordsOfAnswer[i].company_name = hashResponse.best_company_name
              /\ \A j \in 1..Len(RecordsOfAnswer) :
                   RecordsOfAnswer[j].confidence_score = hashResponse.best_confidence_score
                     => RecordsOfAnswer[j].created_at <= RecordsOfAnswer[i].created_at


(***************************************************************************)
(* analytics_server: GET /analytics/shell-analysis                          *)
(***************************************************************************)
\* the most gleif_candidates rows the shell.com row is joined to
MaxCandidates == 10

\* the gleif_candidates rows of a domain: us rows of jurisdiction US, then
\* gb of GB, nl of NL, then unknown rows of NULL jurisdiction, ranked in that
\* order from 1; the rows whose rank is in flagged are marked as the primary
\* selection, every fourth of the others has no mark (NULL), the rest FALSE
JurisdictionAt(i, us, gb, nl) ==
  IF i <= us THEN Some("US")
  ELSE IF i <= us + gb THEN Some("GB")
  ELSE IF i <= us + gb + nl THEN Some("NL")
  ELSE Null

CandidateRows(us, gb, nl, unknown, flagged) ==
  {[lei_code |-> Some(<<"LEI", i>>),
    legal_name |-> Some(<<"Shell entity", i>>),
    jurisdiction |-> JurisdictionAt(i, us, gb, nl),
    rank_position |-> Some(i),
    weighted_score |-> Some(100 - i),
    entity_status |-> IF i % 3 = 0 THEN Null
                      ELSE IF i % 3 = 1 THEN Some("ACTIVE") ELSE Some("INACTIVE"),
    selection_reason |-> Null,
    is_primary_selection |-> IF i \in flagged THEN Some(TRUE)
                             ELSE IF i % 4 = 0 THEN Null ELSE Some(FALSE)] : i \in 1..(us + gb + nl + unknown)}

\* the marks on the rows: none, the first rank, one lower rank, several
FlaggedRanks == {{}, {1}, {2}, {3, 5}, {2, 3, 4}}

ShellRows ==
  {Null} \cup
  {Some([domain |-> "shell.com",
         company_name |-> Some("Shell plc"),
         guessed_country |-> Some("GB"),
         gleif_candidates |-> CandidateRows(c[1], c[2], c[3], c[4], flagged)]) :
     c \in {k \in (0..MaxCandidates) \X (0..MaxCandidates) \X (0..MaxCandidates) \X (0..MaxCandidates) :
              k[1] + k[2] + k[3] + k[4] <= MaxCandidates},
     flagged \in FlaggedRanks}

ShellInit ==
  /\ shellRow \in ShellRows
  /\ shellResponse = NoResponse
  /\ ExtractIdle /\ IdentityIdle /\ HistoryIdle /\ LangIdle /\ ServiceIdle

\* the object json_build_object makes of the row LEFT JOIN leaves without a
\* candidate: every key null
NullCandidate ==
  [lei_code |-> Null, legal_name |-> Null, jurisdiction |-> Null,
   rank_position |-> Null, weighted_score |-> Null, entity_status |-> Null,
   selection_reason |-> Null, is_primary_selection |-> Null]

\* json_agg(json_build_object(...) ORDER BY gc.rank_position) over
\* domains LEFT JOIN gleif_candidates
JsonAgg(rows) ==
  IF rows = {} THEN <<NullCandidate>>
  ELSE [i \in 1..Cardinality(rows) |-> CHOOSE r \in rows : r.rank_position = Some(i)]

\* the truth value of a JSON string or null, and of a JSON boolean or null
TruthyString(v) == v # Null /\ v # Some("")
TruthyBoolean(v) == v # Null /\ v[1]

CountOf(xs, x) == Cardinality({i \in 1..Len(xs) : xs[i] = x})

\* six tenths reached, not exceeded
SixTenthsReached(us_entities, total_entities) == us_entities * 10 >= total_entities * 6

\* total_entities * 0.6, as tenths: the double product of an integer and 0.6
\* compares with an integer as six tenths of it does
SixTenthsExceeded(us_entities, total_entities) == us_entities * 10 > total_entities * 6

\* "High US bias detected" if us_entities > total_entities * 0.6 else ...
BiasAssessment(us_entities, total_entities) ==
  IF SixTenthsExceeded(us_entities, total_entities) THEN "High US bias detected"
  ELSE "Balanced distribution"

\* analyze_geographic_bias(candidates_list)
AnalyzeGeographicBias(candidates_list) ==
  IF candidates_list = <<>> THEN [message |-> "No candidates to analyze"]
  ELSE
    LET withJurisdiction == SelectSeq(candidates_list, LAMBDA c : TruthyString(c.jurisdiction))
        jurisdictions == [i \in 1..Len(withJurisdiction) |-> withJurisdiction[i].jurisdiction[1]]
        us_entities == CountOf(jurisdictions, "US")
        total_entities == Len(candidates_list)
        distinct == {jurisdictions[i] : i \in 1..Len(jurisdictions)}
    IN [us_bias_percentage |-> [numerator |-> us_entities * 100, denominator |-> total_entities],
        jurisdiction_distribution |-> [j \in distinct |-> CountOf(jurisdictions, j)],
        bias_assessment |-> BiasAssessment(us_entities, total_entities),
        multinational_structure |-> Cardinality(distinct) > 2]

\* a faulty variant: the last marked candidate
LastMarkedCandidate(candidates) ==
  LET flaggedAt == {i \in 1..Len(candidates) : TruthyBoolean(candidates[i].is_primary_selection)}
  IN  IF flaggedAt = {} THEN Null
      ELSE Some(candidates[CHOOSE i \in flaggedAt : \A j \in flaggedAt : i >= j])

\* next((c for c in candidates if c.get('is_primary_selection')), None)
PrimaryCandidate(candidates) ==
  LET flaggedAt == {i \in 1..Len(candidates) : TruthyBoolean(candidates[i].is_primary_selection)}
  IN  IF flaggedAt = {} THEN Null
      ELSE Some(candidates[CHOOSE i \in flaggedAt : \A j \in flaggedAt : i <= j])

\* a faulty variant: the candidates without a status filed under 'Unknown',
\* which no entity_status equals
EntityStatusBreakdownUnknown(candidates) ==
  LET statuses == [i \in 1..Len(candidates) |-> candidates[i].entity_status]
  IN  [status \in {IF statuses[i] = Null THEN Some("Unknown") ELSE statuses[i] :
                     i \in 1..Len(statuses)} |-> CountOf(statuses, status)]

\* {status: len([c ... c.get('entity_status') == status]) for status in set(...)}
\* every object json_build_object makes has the key entity_status, null
\* included, so that c.get('entity_status', 'Unknown') is c['entity_status']
EntityStatusBreakdown(candidates) ==
  LET statuses == [i \in 1..Len(candidates) |-> candidates[i].entity_status]
  IN  [status \in {statuses[i] : i \in 1..Len(statuses)} |-> CountOf(statuses, status)]

\* analyze_shell_selection()
AnalyzeShellSelection ==
  /\ shellResponse = NoResponse
  /\ IF shellRow = Null
     THEN shellResponse' = [status_code |-> 404, detail |-> "shell.com not found in database"]
     ELSE LET row == shellRow[1]
              candidates == JsonAgg(row.gleif_candidates)
          IN shellResponse' =
               [status_code |-> 200,
                domain |-> row.domain,
                extracted_company |-> row.company_name,
                geographic_intelligence |-> row.guessed_country,
                lei_candidates |-> candidates,
                analysis |->
                  [total_candidates |-> Len(candidates),
                   geographic_bias_assessment |-> AnalyzeGeographicBias(candidates),
                   selection_quality |->
                     [primary_candidate |-> PrimaryCandidate(candidates),
                      score_distribution |->
                        [i \in 1..Len(candidates) |-> candidates[i].weighted_score],
                      entity_status_breakdown |-> EntityStatusBreakdown(candidates)]]]
  /\ UNCHANGED <<shellRow, extractVars, identityVars, historyVars, langVars, serviceVars>>

ShellNext == AnalyzeShellSelection

SpecShell == ShellInit /\ [][ShellNext]_vars

\* the registry candidates the last analysis was made of
Analysed == shellResponse.status_code = 200
RegistryCandidates == shellRow[1].gleif_candidates
UsCandidates == {c \in RegistryCandidates : c.jurisdiction = Some("US")}
Verdict == shellResponse.analysis.geographic_bias_assessment.bias_assessment

\* C9: for a non-empty candidate list the verdict is high bias exactly when
\* the US candidates are strictly more than 60% of all candidates, those of
\* null jurisdiction counted among all.
C9_HighBiasAboveSixtyPercent ==
  (Analysed /\ RegistryCandidates # {}) =>
    ((Verdict = "High US bias detected") <=>
       (Cardinality(UsCandidates) * 10 > Cardinality(RegistryCandidates) * 6))

\* six US candidates of ten, two of them of null jurisdiction: balanced
C9_Witness ==
  /\ Analysed
  /\ Cardinality(RegistryCandidates) = 10
  /\ Cardinality(UsCandidates) = 6
  /\ Cardinality({c \in RegistryCandidates : c.jurisdiction = Null}) = 2
  /\ Verdict = "Balanced distribution"


(***************************************************************************)
(* domain_hash_service: the reports over table domains                      *)
(***************************************************************************)
\* the batch ids and the stored domains as ORDER BY sorts them (by code point)
BatchIdsCollated == <<"batch-1", "batch-2">>
DomainsCollated == <<dShellComUpperTrail, dAcmeCom, dShellCom>>

\* the members of S in the order of collated
InOrder(collated, S) == SelectSeq(collated, LAMBDA x : x \in S)
CollationIndex(collated, x) == CHOOSE i \in 1..Len(collated) : collated[i] = x

\* a set of integers in ascending order
RECURSIVE Ascending(_)
Ascending(S) == IF S = {} THEN <<>> ELSE <<MinOf(S)>> \o Ascending(S \ {MinOf(S)})

MaxOf(S) == CHOOSE x \in S : \A y \in S : y <= x

\* ORDER BY: xs in the order Before (a strict total order on the members of
\* xs) gives: each member stands after those that sort before it
OrderBy(xs, Before(_, _)) ==
  [i \in 1..Len(xs) |->
     xs[CHOOSE j \in 1..Len(xs) :
          Cardinality({k \in 1..Len(xs) : Before(xs[k], xs[j])}) = i - 1]]

\* GROUP BY domain_hash, domain: the groups, each the rows of one pair, in
\* the order of the domains
GroupByHashAndDomain(rows) ==
  LET keys == {<<rows[i].domain_hash, rows[i].domain>> : i \in 1..Len(rows)}
      present == InOrder(DomainsCollated, {k[2] : k \in keys})
  IN  [g \in 1..Len(present) |-> SelectSeq(rows, LAMBDA r : r.domain = present[g])]

ColumnSet(rows, Column(_)) == {Column(rows[i]) : i \in 1..Len(rows)}

\* LIMIT 20
DuplicatesLimit == 20

\* one row of the duplicates query: the aggregates of a group
DuplicateRow(rows) ==
  [domain |-> rows[1].domain,
   domain_hash |-> rows[1].domain_hash,
   occurrence_count |-> Len(rows),
   batch_count |-> Cardinality(ColumnSet(rows, LAMBDA r : r.batch_id)),
   batch_ids |-> InOrder(BatchIdsCollated, ColumnSet(rows, LAMBDA r : r.batch_id)),
   domain_ids |-> Ascending(ColumnSet(rows, LAMBDA r : r.id)),
   first_seen |-> Some(IsoFormat(MinOf(ColumnSet(rows, LAMBDA r : r.created_at)))),
   last_seen |-> Some(IsoFormat(MaxOf(ColumnSet(rows, LAMBDA r : r.created_at))))]

\* ... GROUP BY domain_hash, domain HAVING COUNT(*) > 1
\* ORDER BY occurrence_count DESC, domain LIMIT 20
DuplicatesQuery ==
  Bind(GroupByHashAndDomain(domains), LAMBDA groups :
    TakeFirst(
      OrderBy(
        [g \in 1..Len(SelectSeq(groups, LAMBDA rows : Len(rows) > 1)) |->
           DuplicateRow(SelectSeq(groups, LAMBDA rows : Len(rows) > 1)[g])],
        LAMBDA a, b :
          \/ a.occurrence_count > b.occurrence_count
          \/ /\ a.occurrence_count = b.occurrence_count
             /\ CollationIndex(DomainsCollated, a.domain)
                  < CollationIndex(DomainsCollated, b.domain)),
      DuplicatesLimit))

ReportInit == HistoryInit

\* analyze_domain_duplicates()
AnalyzeDomainDuplicates ==
  /\ reportResponse' =
       Bind(DuplicatesQuery, LAMBDA duplicates :
         [status_code |-> 200,
          endpoint |-> "/analytics/domain-duplicates",
          total_duplicates |-> Len(duplicates),
          analysis |-> "Every domain appears exactly twice across two batches",
          solution |-> "Domain hash enables unique identification and proper aggregation",
          duplicates |-> duplicates])
  /\ UNCHANGED <<domains, gleif_candidates, hashResponse, extractVars, identityVars, shellVars, langVars, serviceVars>>

\* FROM domains d LEFT JOIN gleif_candidates gc ON d.id = gc.domain_id:
\* the candidates joined to a row, and the number of joined rows a row makes
CandidatesOf(r) == {gc \in gleif_candidates : gc.domain_id = r.id}
JoinedTo(r) == IF CandidatesOf(r) = {} THEN 1 ELSE Cardinality(CandidatesOf(r))

\* COUNT(*) over the joined rows of a group, from row k on
RECURSIVE CountJoined(_, _)
CountJoined(rows, k) ==
  IF k > Len(rows) THEN 0 ELSE JoinedTo(rows[k]) + CountJoined(rows, k + 1)

\* MAX(confidence_score) and MIN(confidence_score): over the non-null scores,
\* NULL when there is none
ScoresOf(rows) ==
  {rows[i].confidence_score[1] : i \in {j \in 1..Len(rows) : rows[j].confidence_score # Null}}
MaxConfidence(rows) == IF ScoresOf(rows) = {} THEN Null ELSE Some(MaxOf(ScoresOf(rows)))
MinConfidence(rows) == IF ScoresOf(rows) = {} THEN Null ELSE Some(MinOf(ScoresOf(rows)))

\* the distinct company names of a group that are not NULL, in the order of
\* their rows
NamesOf(rows) ==
  Bind(SelectSeq(rows, LAMBDA r : r.company_name # Null), LAMBDA named :
    DedupInOrder([i \in 1..Len(named) |-> named[i].company_name[1]]))

\* LIMIT 20
IntelligenceLimit == 20

\* one row of cross_batch_analysis: the aggregates of a group
CrossBatchRow(rows) ==
  [domain |-> rows[1].domain,
   domain_hash |-> rows[1].domain_hash,
   batch_appearances |-> Cardinality(ColumnSet(rows, LAMBDA r : r.batch_id)),
   batches |-> InOrder(BatchIdsCollated, ColumnSet(rows, LAMBDA r : r.batch_id)),
   total_processing_attempts |-> CountJoined(rows, 1),
   best_confidence |-> MaxConfidence(rows),
   worst_confidence |-> MinConfidence(rows),
   name_variations |-> Len(NamesOf(rows)),
   all_names |-> IF NamesOf(rows) = <<>> THEN Null ELSE Some(NamesOf(rows)),
   ever_successful |-> \E i \in 1..Len(rows) : rows[i].status = "success",
   unique_lei_codes |->
     Cardinality({gc.lei_code : gc \in UNION {CandidatesOf(rows[i]) : i \in 1..Len(rows)}})]

\* ... GROUP BY domain_hash, domain HAVING COUNT(DISTINCT batch_id) > 1
\* ORDER BY best_confidence DESC NULLS LAST, domain LIMIT 20
CrossBatchQuery ==
  Bind(SelectSeq(GroupByHashAndDomain(domains),
                 LAMBDA rows : Cardinality(ColumnSet(rows, LAMBDA r : r.batch_id)) > 1),
       LAMBDA groups :
         TakeFirst(
           OrderBy(
             [g \in 1..Len(groups) |-> CrossBatchRow(groups[g])],
             LAMBDA a, b :
               \/ a.best_confidence # Null /\ b.best_confidence = Null
               \/ /\ a.best_confidence # Null /\ b.best_confidence # Null
                  /\ a.best_confidence[1] > b.best_confidence[1]
               \/ /\ a.best_confidence = b.best_confidence
                  /\ CollationIndex(DomainsCollated, a.domain)
                       < CollationIndex(DomainsCollated, b.domain)),
           IntelligenceLimit))

\* the truth value of a nullable number: None and 0 are false
TruthyNumber(x) == x # Null /\ x[1] # 0

\* x or 0
OrZero(x) == IF TruthyNumber(x) THEN x[1] ELSE 0

\* (best or 0) - (worst or 0) if best and worst else None
Improvement(best_confidence, worst_confidence) ==
  IF TruthyNumber(best_confidence) /\ TruthyNumber(worst_confidence)
  THEN Some(OrZero(best_confidence) - OrZero(worst_confidence))
  ELSE Null

\* one entry of intelligence
Intelligence(r) ==
  [domain |-> r.domain,
   domain_hash |-> r.domain_hash,
   batch_appearances |-> r.batch_appearances,
   batches |-> r.batches,
   total_processing_attempts |-> r.total_processing_attempts,
   confidence_improvement |->
     [best |-> r.best_confidence,
      worst |-> r.worst_confidence,
      improvement |-> Improvement(r.best_confidence, r.worst_confidence)],
   name_variations |-> r.name_variations,
   all_extracted_names |-> r.all_names,
   processing_success |-> r.ever_successful,
   gleif_entities_found |-> r.unique_lei_codes]

\* cross_batch_intelligence()
CrossBatchIntelligence ==
  /\ reportResponse' =
       Bind(CrossBatchQuery, LAMBDA results :
         [status_code |-> 200,
          endpoint |-> "/analytics/cross-batch-intelligence",
          analysis |-> "Cross-batch intelligence demonstrates domain hash value",
          benefits |-> <<"Tracks processing improvements over time",
                         "Identifies extraction consistency",
                         "Enables confidence score evolution analysis",
                         "Accumulates GLEIF entity discoveries">>,
          cross_batch_domains |-> [i \in 1..Len(results) |-> Intelligence(results[i])]])
  /\ UNCHANGED <<domains, gleif_candidates, hashResponse, extractVars, identityVars,
                 shellVars, langVars, serviceVars>>

\* the batches an export may be asked for: the stored ones and one never stored
RequestBatchIds == BatchIds \cup {"batch-9"}
\* the lei codes as ORDER BY sorts them
LeiCodesCollated == <<"LEI-A", "LEI-B">>

\* WHERE d.batch_id = :batch_id
WhereBatchId(batch_id) == SelectSeq(domains, LAMBDA r : r.batch_id = batch_id)

\* string_agg(DISTINCT gc.lei_code, '; ' ORDER BY gc.lei_code) over the
\* candidates joined to a row: the codes in order, NULL when there is none
AllLeiCodes(r) ==
  IF CandidatesOf(r) = {} THEN Null
  ELSE Some(InOrder(LeiCodesCollated, {gc.lei_code : gc \in CandidatesOf(r)}))

\* COALESCE(x, '')
CoalesceEmpty(x) == IF x = Null THEN <<>> ELSE x[1]

\* the CASE expressions of the export query; a comparison with NULL is not true
BusinessCategory(confidence_score) ==
  IF confidence_score # Null /\ confidence_score[1] >= 85 THEN "High Priority"
  ELSE IF confidence_score # Null /\ confidence_score[1] >= 60 THEN "Good Target"
  ELSE IF confidence_score # Null /\ confidence_score[1] >= 30 THEN "Research Required"
  ELSE "Manual Review"
Recommendation(status, confidence_score) ==
  IF status = "failed" THEN "Retry with Level 2"
  ELSE IF confidence_score # Null /\ confidence_score[1] < 70 THEN "GLEIF Enhancement"
  ELSE "Ready for Analysis"

\* one row of the export query of analytics_server; the columns the tables of
\* the model do not hold (extraction_method, guessed_country,
\* processing_time_ms, level2_status, primary_lei_code, and legal_name,
\* jurisdiction, entity_status of a candidate) are NULL
DomainExport(r) ==
  [id |-> r.id,
   domain |-> r.domain,
   company_name |-> r.company_name,
   extraction_method |-> Null,
   confidence_score |-> r.confidence_score,
   status |-> r.status,
   guessed_country |-> Null,
   processing_time_ms |-> Null,
   gleif_status |-> "No GLEIF",
   lei_code |-> Null,
   business_category |-> BusinessCategory(r.confidence_score),
   recommendation |-> Recommendation(r.status, r.confidence_score),
   gleif_candidate_count |-> Cardinality(CandidatesOf(r)),
   all_lei_codes |-> CoalesceEmpty(AllLeiCodes(r)),
   all_legal_names |-> <<>>,
   all_jurisdictions |-> <<>>,
   all_entity_statuses |-> <<>>]

\* export_batch_with_gleif(batch_id) of analytics_server: the rows of the
\* batch in the order of their ids, 404 when there is none
ExportBatchWithGleif ==
  /\ \E batch_id \in RequestBatchIds :
       reportResponse' =
         Bind(WhereBatchId(batch_id), LAMBDA rows :
           IF rows = <<>>
           THEN [status_code |-> 404, endpoint |-> "/export/{batch_id}",
                 detail |-> "Batch not found"]
           ELSE [status_code |-> 200, endpoint |-> "/export/{batch_id}",
                 body |-> [i \in 1..Len(rows) |-> DomainExport(rows[i])]])
  /\ hashResponse' = NoResponse
  /\ UNCHANGED <<domains, gleif_candidates, extractVars, identityVars, shellVars, langVars, serviceVars>>

\* GROUP BY d.domain_hash, d.domain, d.company_name, ..., d.status, ...: the
\* rows that agree in every grouped column make one group
GroupedColumns(r) ==
  [domain_hash |-> r.domain_hash, domain |-> r.domain, company_name |-> r.company_name,
   confidence_score |-> r.confidence_score, status |-> r.status]

\* the lei codes of the candidates joined to the rows of a group
LeiCodesOf(rows, group) ==
  {gc.lei_code : gc \in UNION {CandidatesOf(rows[i]) :
                                 i \in {j \in 1..Len(rows) : GroupedColumns(rows[j]) = group}}}

\* one entry of export_data: a row of domain_aggregation
DomainAggregation(group, lei_codes) ==
  [domain_hash |-> group.domain_hash,
   domain |-> group.domain,
   company_name |-> group.company_name,
   extraction_method |-> Null,
   confidence_score |-> group.confidence_score,
   status |-> group.status,
   guessed_country |-> Null,
   processing_time_ms |-> Null,
   gleif_candidate_count |-> Cardinality(lei_codes),
   all_lei_codes |-> IF lei_codes = {} THEN Null
                     ELSE Some(InOrder(LeiCodesCollated, lei_codes)),
   all_legal_names |-> Null,
   all_jurisdictions |-> Null,
   all_entity_statuses |-> Null]

\* SELECT * FROM domain_aggregation ORDER BY domain: the groups in the order
\* of their domains, groups of one domain in any order
AggregationQuery(rows) ==
  Bind(DedupInOrder([i \in 1..Len(rows) |-> GroupedColumns(rows[i])]), LAMBDA groups :
    {[i \in 1..Len(p) |-> DomainAggregation(p[i], LeiCodesOf(rows, p[i]))] :
       p \in {q \in {NthPerm(groups, k) : k \in 0..(Factorial(Len(groups)) - 1)} :
                \A i \in 1..(Len(q) - 1) :
                  CollationIndex(DomainsCollated, q[i].domain)
                    <= CollationIndex(DomainsCollated, q[i + 1].domain)}})

\* export_batch_with_gleif_fixed(batch_id) of domain_hash_service
ExportBatchWithGleifFixed ==
  /\ \E batch_id \in RequestBatchIds :
       \E export_data \in AggregationQuery(WhereBatchId(batch_id)) :
         reportResponse' =
           [status_code |-> 200,
            endpoint |-> "/export/batch/{batch_id}/with-gleif-fixed",
            total_unique_domains |-> Len(export_data),
            domains_with_gleif |->
              Len(SelectSeq(export_data, LAMBDA r : r.gleif_candidate_count > 0)),
            export_data |-> export_data]
  /\ hashResponse' = NoResponse
  /\ UNCHANGED <<domains, gleif_candidates, extractVars, identityVars, shellVars, langVars, serviceVars>>

ReportNext == InsertDomain \/ AnalyzeDomainDuplicates \/ CrossBatchIntelligence

\* the lookups by domain and by batch, of both services
LookupNext ==
  InsertDomain \/ GetDomainHash \/ ExportBatchWithGleif \/ ExportBatchWithGleifFixed

SpecLookups == HistoryInit /\ [][LookupNext]_vars

SpecReports == ReportInit /\ [][ReportNext]_vars

\* the duplicate report last answered, and the records of an identity key
DuplicatesAnswered ==
  reportResponse.status_code = 200 /\ reportResponse.endpoint = "/analytics/domain-duplicates"
RecordsOfKey(key) == SelectSeq(domains, LAMBDA r : r.domain_hash = key)
ReportedFor(key) ==
  SelectSeq(reportResponse.duplicates, LAMBDA dup : dup.domain_hash = key)

\* C11: every identity key with more than one record is reported once, with
\* occurrence_count the number of records of the key and batch_ids the set of
\* their batch ids, whatever the case and blanks of the raw domains.
C11_DuplicatesByIdentityKey ==
  DuplicatesAnswered =>
    \A key \in ColumnSet(domains, LAMBDA r : r.domain_hash) :
      Len(RecordsOfKey(key)) > 1 =>
        /\ Len(ReportedFor(key)) = 1
        /\ ReportedFor(key)[1].occurrence_count = Len(RecordsOfKey(key))
        /\ ColumnSet(ReportedFor(key)[1].batch_ids, LAMBDA b : b)
             = ColumnSet(RecordsOfKey(key), LAMBDA r : r.batch_id)

\* the cross-batch report last answered
IntelligenceAnswered ==
  /\ reportResponse.status_code = 200
  /\ reportResponse.endpoint = "/analytics/cross-batch-intelligence"

\* C14: the 'improvement' of a reported domain is non-null exactly when its
\* best and its worst confidence are both non-null, and is then best - worst,
\* also when one of the two is 0.
C14_ImprovementWhenBothKnown ==
  IntelligenceAnswered =>
    \A i \in 1..Len(reportResponse.cross_batch_domains) :
      LET c == reportResponse.cross_batch_domains[i].confidence_improvement
      IN  /\ c.improvement # Null <=> (c.best # Null /\ c.worst # Null)
          /\ c.improvement # Null => c.improvement[1] = c.best[1] - c.worst[1]

(***************************************************************************)
(* LangExtractService (server/services/langextractService.py)              *)
(***************************************************************************)
\* the characters of the submitted contents
TextChars ==
  Word \cup Space \cup {"<", ">", "/", "=", "&", ".", "-", ",", ";", "[", "]", ":", cCopy}

\* re.sub(p, repl, s): the pieces from match k on, the text before pos being done
RECURSIVE SubPiecesWith(_, _, _, _, _)
SubPiecesWith(found, k, s, pos, repl) ==
  IF k > Len(found) THEN SubSeq(s, pos, Len(s))
  ELSE SubSeq(s, pos, found[k].s - 1) \o repl
         \o SubPiecesWith(found, k + 1, s, found[k].e, repl)
ReSub(p, repl, s, ic) == SubPiecesWith(Scanned(Matches(p, s, ic), 1), 1, s, 1, repl)

\* a faulty variant: the index of the last occurrence
FindLast(s, sub) ==
  Bind({i \in 1..(Len(s) - Len(sub) + 1) : SubSeq(s, i, i + Len(sub) - 1) = sub},
       LAMBDA at : IF at = {} THEN 0 - 1 ELSE MaxOf(at) - 1)

\* str.find(sub): the 0-based index of the first occurrence, -1 when there is none
Find(s, sub) ==
  Bind({i \in 1..(Len(s) - Len(sub) + 1) : SubSeq(s, i, i + Len(sub) - 1) = sub},
       LAMBDA at : IF at = {} THEN 0 - 1 ELSE MinOf(at) - 1)

\* str.replace(old, ''): s without the occurrences of old, found left to right
RECURSIVE Removed(_, _)
Removed(s, old) ==
  IF Find(s, old) < 0 THEN s
  ELSE SubSeq(s, 1, Find(s, old)) \o Removed(DropFirst(s, Find(s, old) + Len(old)), old)

\* ', '.join(names)
RECURSIVE JoinComma(_)
JoinComma(names) ==
  IF names = <<>> THEN <<>>
  ELSE IF Len(names) = 1 THEN names[1]
  ELSE names[1] \o <<",", " ">> \o JoinComma(Tail(names))

\* str(n) of a natural number
RECURSIVE Decimal(_)
Decimal(n) == IF n < 10 THEN <<DigitSeq[n + 1]>> ELSE Decimal(n \div 10) \o <<DigitSeq[(n % 10) + 1]>>

\* r'<[^>]*>'
TagPattern ==
  Pattern(Eps, Cat(Chr("<"), Cat(Star(Set(TextChars \ {">"})), Chr(">"))), Eps)
\* r'\s+'
SpaceRun == Pattern(Eps, Plus(Set(Space)), Eps)

RECURSIVE AltAll(_)
AltAll(rs) == IF Len(rs) = 1 THEN rs[1] ELSE Alt(rs[1], AltAll(Tail(rs)))
\* 'x\.?'
DotOpt(str) == Cat(Lit(str), Opt(Chr(".")))
\* [A-Za-z0-9\s&\.\-]
LegalNameClass == Upper \cup Lower \cup Digit \cup Space \cup {"&", ".", "-"}
\* r'\b([A-Z][A-Za-z0-9\s&\.\-]+\s+(?:...))\b'
LegalSuffix(endings) ==
  Pattern(WordBoundary,
          Cat(Set(Upper), Cat(Plus(Set(LegalNameClass)), Cat(Plus(Set(Space)), endings))),
          WordBoundary)
legal_suffixes ==
  << LegalSuffix(AltAll(<<Lit(<<"L","i","m","i","t","e","d">>),
                          DotOpt(<<"L","t","d">>),
                          DotOpt(<<"I","n","c">>),
                          Lit(<<"I","n","c","o","r","p","o","r","a","t","e","d">>),
                          Lit(<<"L","L","C">>),
                          Lit(<<"L",".","L",".","C",".">>),
                          DotOpt(<<"C","o","r","p">>),
                          Lit(<<"C","o","r","p","o","r","a","t","i","o","n">>)>>)),
     LegalSuffix(AltAll(<<Cat(Lit(<<"P","r","i","v","a","t","e">>),
                              Cat(Plus(Set(Space)), Lit(<<"L","i","m","i","t","e","d">>))),
                          Cat(DotOpt(<<"P","v","t">>),
                              Cat(Plus(Set(Space)), DotOpt(<<"L","t","d">>))),
                          Cat(Lit(<<"P","u","b","l","i","c">>),
                              Cat(Plus(Set(Space)),
                                  Cat(Lit(<<"L","i","m","i","t","e","d">>),
                                      Cat(Plus(Set(Space)),
                                          Lit(<<"C","o","m","p","a","n","y">>))))),
                          Lit(<<"P","L","C">>)>>)),
     LegalSuffix(AltAll(<<Lit(<<"G","m","b","H">>),
                          Lit(<<"S",".","A",".">>),
                          Lit(<<"B",".","V",".">>),
                          Lit(<<"A","G">>),
                          Lit(<<"A","B">>),
                          Lit(<<"A","S">>),
                          Lit(<<"S",".","p",".","A",".">>)>>)) >>

\* the loop over legal_suffixes, from pattern k on
RECURSIVE FoundEntities(_, _)
FoundEntities(text_content, k) ==
  IF k > Len(legal_suffixes) THEN <<>>
  ELSE FindAll(legal_suffixes[k], text_content, TRUE) \o FoundEntities(text_content, k + 1)

\* the length limits of extract_entities
MaxHinted == 10
ManyHinted == 5
MaxTextLen == 10000
\* the characters of text_content the prompt carries, {text_content[:5000]}
PromptLen == 5000

\* domain.replace('.com', '').replace('.in', '').replace('.org', '').replace('.net', '')
DomainName(domain) ==
  Removed(Removed(Removed(Removed(domain, <<".","c","o","m">>), <<".","i","n">>),
                  <<".","o","r","g">>), <<".","n","e","t">>)

\* f"[DOMAIN: {domain_name}] " when a domain is given
DomainHint(domain) ==
  IF domain = NoneStr \/ domain = <<>> THEN <<>>
  ELSE <<"[","D","O","M","A","I","N",":"," ">> \o DomainName(domain) \o <<"]"," ">>

LegalEntitiesFound ==
  <<"L","E","G","A","L"," ","E","N","T","I","T","I","E","S"," ","F","O","U","N","D",":"," ">>

\* the text handed on: the hints of lines 53-69 put before the stripped text
Hinted(text_content, domain, unique_entities) ==
  Bind(DomainHint(domain) \o <<"[">> \o LegalEntitiesFound
         \o JoinComma(unique_entities) \o <<"]", " ">> \o text_content,
       LAMBDA hinted :
         IF Len(unique_entities) > ManyHinted
         THEN DomainHint(domain) \o <<"[">> \o Decimal(Len(unique_entities)) \o <<" ">>
                \o LegalEntitiesFound \o JoinComma(unique_entities) \o <<"]", " ">> \o hinted
         ELSE hinted)

\* lines 37-73: text_content as the rest of the call reads it
TextContent(html_content, domain, seed) ==
  Bind(Strip(ReSub(SpaceRun, <<" ">>, ReSub(TagPattern, <<" ">>, html_content, FALSE), FALSE)),
       LAMBDA stripped :
         Bind(FoundEntities(stripped, 1), LAMBDA found_entities :
           TakeFirst(IF found_entities = <<>> THEN stripped
                     ELSE Hinted(stripped, domain,
                                 TakeFirst(ListOfSet(found_entities, seed), MaxHinted)),
                     MaxTextLen)))

\* the text submitted to the collaborator: TEXT TO ANALYZE of the prompt
SubmittedText(text_content) == TakeFirst(text_content, PromptLen)

(***************************************************************************)
(* The collaborator's answer and json.loads.  The text of an answer is a   *)
(* sequence of lexical tokens: the punctuation of JSON, string literals,   *)
(* numbers, null, and words of prose, which are no JSON token.             *)
(***************************************************************************)
Tok(t) == [t |-> t, v |-> <<>>]
StrTok(str) == [t |-> "string", v |-> str]
NumTok(n) == [t |-> "number", v |-> <<n>>]
ProseTok(str) == [t |-> "prose", v |-> str]

\* the values json.loads builds: None, int, str, list, dict (keys in insertion order)
JNull == [k |-> "NoneType"]
JNum(n) == [k |-> "int", n |-> n]
JStr(str) == [k |-> "str", s |-> str]
JList(items) == [k |-> "list", items |-> items]
JDict(members) == [k |-> "dict", members |-> members]

\* d[key] = val
Put(members, key, val) ==
  IF \E m \in 1..Len(members) : members[m].key = key
  THEN [m \in 1..Len(members) |->
          IF members[m].key = key THEN [key |-> key, val |-> val] ELSE members[m]]
  ELSE Append(members, [key |-> key, val |-> val])

\* d.get(key, default)
Get(d, key, default) ==
  IF \E m \in 1..Len(d.members) : d.members[m].key = key
  THEN d.members[CHOOSE m \in 1..Len(d.members) : d.members[m].key = key].val
  ELSE default

\* bool(v)
JTruthy(v) ==
  CASE v.k = "NoneType" -> FALSE
    [] v.k = "int" -> v.n # 0
    [] v.k = "str" -> v.s # <<>>
    [] v.k = "list" -> v.items # <<>>
    [] v.k = "dict" -> v.members # <<>>

\* the JSON decoder: the value that starts at token i and the index after it
Parsed(val, next) == [ok |-> TRUE, val |-> val, next |-> next]
NotParsed == [ok |-> FALSE, val |-> JNull, next |-> 0]
IsTok(ts, i, t) == i <= Len(ts) /\ ts[i].t = t

RECURSIVE ParseValue(_, _)
RECURSIVE ParseMembers(_, _, _)
RECURSIVE ParseItems(_, _, _)
ParseValue(ts, i) ==
  IF i > Len(ts) THEN NotParsed
  ELSE CASE ts[i].t = "string" -> Parsed(JStr(ts[i].v), i + 1)
         [] ts[i].t = "number" -> Parsed(JNum(ts[i].v[1]), i + 1)
         [] ts[i].t = "null" -> Parsed(JNull, i + 1)
         [] ts[i].t = "{" -> IF IsTok(ts, i + 1, "}") THEN Parsed(JDict(<<>>), i + 2)
                             ELSE ParseMembers(ts, i + 1, <<>>)
         [] ts[i].t = "[" -> IF IsTok(ts, i + 1, "]") THEN Parsed(JList(<<>>), i + 2)
                             ELSE ParseItems(ts, i + 1, <<>>)
         [] OTHER -> NotParsed

\* "key": value, then a comma and more members or the closing brace
ParseMembers(ts, i, members) ==
  IF ~(IsTok(ts, i, "string") /\ IsTok(ts, i + 1, ":")) THEN NotParsed
  ELSE Bind(ParseValue(ts, i + 2), LAMBDA p :
         IF ~p.ok THEN NotParsed
         ELSE IF IsTok(ts, p.next, ",")
              THEN ParseMembers(ts, p.next + 1, Put(members, ts[i].v, p.val))
         ELSE IF IsTok(ts, p.next, "}")
              THEN Parsed(JDict(Put(members, ts[i].v, p.val)), p.next + 1)
         ELSE NotParsed)

\* value, then a comma and more items or the closing bracket
ParseItems(ts, i, items) ==
  Bind(ParseValue(ts, i), LAMBDA p :
    IF ~p.ok THEN NotParsed
    ELSE IF IsTok(ts, p.next, ",") THEN ParseItems(ts, p.next + 1, Append(items, p.val))
    ELSE IF IsTok(ts, p.next, "]") THEN Parsed(JList(Append(items, p.val)), p.next + 1)
    ELSE NotParsed)

\* a faulty variant: a decoder that stops at the end of the first value
JsonLoadsPrefix(ts) ==
  Bind(ParseValue(ts, 1), LAMBDA p :
    IF p.ok THEN [raised |-> None, value |-> p.val]
    ELSE [raised |-> "JSONDecodeError", value |-> JNull])

\* json.loads(text): the value the whole text spells, or JSONDecodeError
JsonLoads(ts) ==
  Bind(ParseValue(ts, 1), LAMBDA p :
    IF p.ok /\ p.next = Len(ts) + 1 THEN [raised |-> None, value |-> p.val]
    ELSE [raised |-> "JSONDecodeError", value |-> JNull])

\* re.search(r'\{.*\}', response_text, re.DOTALL).group(): from the first
\* opening brace to the last closing brace, <<>> when there is no such span
JsonMatch(ts) ==
  Bind({i \in 1..Len(ts) : ts[i].t = "{"}, LAMBDA opening :
    Bind({j \in 1..Len(ts) : ts[j].t = "}"}, LAMBDA closing :
      IF opening = {} \/ closing = {} \/ MinOf(opening) > MaxOf(closing) THEN <<>>
      ELSE SubSeq(ts, MinOf(opening), MaxOf(closing))))

(***************************************************************************)
(* extract_entities.  A step of the call ends in one of three ways:        *)
(*   [kind |-> "return", value]   a return statement was reached           *)
(*   [kind |-> "raise", exc]      an exception left the step               *)
(*   [kind |-> "next", value]     the step fell through with a value       *)
(***************************************************************************)
Return(value) == [kind |-> "return", value |-> value]
Raise(exc) == [kind |-> "raise", exc |-> exc]
Continue(value) == [kind |-> "next", value |-> value]

model_name == "gemini-2.5-flash"
sExtractions == <<"e","x","t","r","a","c","t","i","o","n","s">>
sValue == <<"v","a","l","u","e">>
sConfidence == <<"c","o","n","f","i","d","e","n","c","e">>
sContext == <<"c","o","n","t","e","x","t">>

\* the default of extraction_data.get("confidence", 50)
DefaultConfidence == 50

\* the dict returned on a failure, lines 76-83, 168-175, 195-202 and 248-255
ErrorResult(error, processingTime, metadata) ==
  [error |-> error, entities |-> <<>>, processingTime |-> processingTime,
   tokensProcessed |-> 0, sourceMapping |-> <<>>, metadata |-> metadata]

\* lines 163-202: the call of the collaborator and the decoding of its answer
GenerateContent(reply, elapsed) ==
  CASE reply.kind = "raises" ->
         \* except Exception as api_error
         Return(ErrorResult(<<"API error", reply.exc>>, elapsed, [model |-> model_name]))
    [] reply.kind \in {"None", "no text"} ->
         \* not response or not hasattr(response, 'text')
         Return(ErrorResult(<<"Invalid response">>, elapsed, [model |-> model_name]))
    [] reply.kind = "text raises" ->
         \* hasattr lets an exception other than AttributeError through
         Return(ErrorResult(<<"API error", reply.exc>>, elapsed, [model |-> model_name]))
    [] reply.kind = "text None" ->
         \* len(response_text) of None
         Return(ErrorResult(<<"API error", "TypeError">>, elapsed, [model |-> model_name]))
    [] reply.kind = "text" ->
         IF JsonMatch(reply.text) # <<>>
         THEN Bind(JsonLoads(JsonMatch(reply.text)), LAMBDA loaded :
                IF loaded.raised = None THEN Continue(loaded.value)
                ELSE Return(ErrorResult(<<"API error", loaded.raised>>, elapsed,
                                        [model |-> model_name])))
         ELSE Bind(JsonLoads(reply.text), LAMBDA loaded :
                IF loaded.raised = None THEN Continue(loaded.value)
                ELSE Continue(JDict(<<[key |-> sExtractions, val |-> JDict(<<>>)]>>)))

\* one entry of entities, lines 211-224
Entity(field_name, extraction_data, value, text_content) ==
  IF value.k # "str" THEN Raise("TypeError")
  ELSE Bind(Get(extraction_data, sConfidence, JNum(DefaultConfidence)), LAMBDA confidence :
         Bind(Find(text_content, value.s), LAMBDA start_pos :
           IF confidence.k # "int" THEN Raise("TypeError")
           ELSE Continue(
                  [text |-> value.s,
                   type |-> field_name,
                   confidence |-> [numerator |-> confidence.n, denominator |-> 100],
                   sourceLocation |->
                     [start |-> IF start_pos # 0 - 1 THEN start_pos ELSE 0,
                      end |-> IF start_pos # 0 - 1 THEN start_pos + Len(value.s)
                              ELSE Len(value.s),
                      context |-> Get(extraction_data, sContext, JStr(<<>>))]])))

\* the loop of lines 208-224, from member k of extractions on
RECURSIVE EntitiesLoop(_, _, _, _)
EntitiesLoop(members, k, text_content, entities) ==
  IF k > Len(members) THEN Continue(entities)
  ELSE IF ~JTruthy(members[k].val)
       THEN EntitiesLoop(members, k + 1, text_content, entities)
  ELSE IF members[k].val.k # "dict" THEN Raise("AttributeError")
  ELSE IF ~JTruthy(Get(members[k].val, sValue, JNull))
       THEN EntitiesLoop(members, k + 1, text_content, entities)
  ELSE Bind(Entity(members[k].key, members[k].val,
                   Get(members[k].val, sValue, JNull), text_content),
            LAMBDA entity :
              IF entity.kind = "raise" THEN entity
              ELSE EntitiesLoop(members, k + 1, text_content, Append(entities, entity.value)))

\* lines 204-245: the answer made into the returned dict
ProcessResults(result_json, text_content, elapsed) ==
  IF result_json.k # "dict" THEN Raise("AttributeError")
  ELSE Bind(Get(result_json, sExtractions, JDict(<<>>)), LAMBDA extractions :
         IF extractions.k # "dict" THEN Raise("AttributeError")
         ELSE Bind(EntitiesLoop(extractions.members, 1, text_content, <<>>), LAMBDA entities :
                IF entities.kind = "raise" THEN entities
                ELSE Return(
                       [entities |-> entities.value,
                        processingTime |-> elapsed,
                        tokensProcessed |-> Len(StrSplit(text_content)),
                        sourceMapping |->
                          [i \in 1..Len(entities.value) |->
                             [text |-> entities.value[i].text,
                              originalPosition |-> entities.value[i].sourceLocation.start,
                              extractedPosition |-> i - 1]],
                        metadata |->
                          [language |-> "en", documentLength |-> Len(text_content),
                           chunkCount |-> 1, model |-> model_name]])))

\* lines 34-245: the body of the try statement
TryBody(model, call, seed, reply, elapsed) ==
  IF call.html_content.k # "str" THEN Raise("TypeError")
  ELSE IF model = Null
       THEN Return(ErrorResult(<<"Gemini API key not configured">>, 0, <<>>))
  ELSE IF call.schema.k # "dict" THEN Raise("AttributeError")
  ELSE Bind(GenerateContent(reply, elapsed), LAMBDA answered :
         IF answered.kind = "next"
         THEN ProcessResults(answered.value,
                             TextContent(call.html_content.s, call.domain, seed), elapsed)
         ELSE answered)

\* a faulty variant: the call without its outer except clause
ExceptMissing(outcome) ==
  IF outcome.kind = "raise" THEN [raised |-> outcome.exc, value |-> <<>>]
  ELSE [raised |-> None, value |-> outcome.value]

\* lines 247-255: except Exception as e
ExceptException(outcome) ==
  IF outcome.kind = "raise"
  THEN [raised |-> None, value |-> ErrorResult(<<outcome.exc>>, 0, <<>>)]
  ELSE [raised |-> None, value |-> outcome.value]

\* LangExtractService.extract_entities(html_content, schema, domain)
ExtractEntities(model, call, seed, reply, elapsed) ==
  ExceptException(TryBody(model, call, seed, reply, elapsed))

(***************************************************************************)
(* One process of the service: main() builds the service and makes one    *)
(* extract_entities call                                                   *)
(***************************************************************************)
\* <p>Acme Inc</p>
hAcmeInc == <<"<","p",">","A","c","m","e"," ","I","n","c","<","/","p",">">>
\* <p>Welcome</p>
hWelcome == <<"<","p",">","W","e","l","c","o","m","e","<","/","p",">">>
\* Acme Inc, Zeta AG
hAcmeAndZeta ==
  <<"A","c","m","e"," ","I","n","c",","," ","Z","e","t","a"," ","A","G">>
\* 5000 digits, then " Acme": a text longer than the prompt carries
hLongThenAcme == [i \in 1..PromptLen |-> "1"] \o <<" ">> \o sAcme
sAcmeInc == <<"A","c","m","e"," ","I","n","c">>
sZetaAG == <<"Z","e","t","a"," ","A","G">>
sCompanyName == <<"c","o","m","p","a","n","y","_","n","a","m","e">>
sLegalEntityName ==
  <<"l","e","g","a","l","_","e","n","t","i","t","y","_","n","a","m","e">>
sString == <<"s","t","r","i","n","g">>
sHigh == <<"h","i","g","h">>
sFooter == <<"f","o","o","t","e","r">>

\* {"company_name": "string", "legal_entity_name": "string"}
SchemaDict ==
  JDict(<<[key |-> sCompanyName, val |-> JStr(sString)],
          [key |-> sLegalEntityName, val |-> JStr(sString)]>>)

Call(html_content, schema, domain) ==
  [html_content |-> html_content, schema |-> schema, domain |-> domain]
LangCalls ==
  { Call(JStr(hAcmeInc), SchemaDict, dAcmeCom),
    Call(JStr(hAcmeInc), SchemaDict, <<>>),
    Call(JStr(hWelcome), SchemaDict, dAcmeCom),
    Call(JStr(hAcmeAndZeta), SchemaDict, dAcmeCom),
    Call(JStr(hLongThenAcme), SchemaDict, dAcmeCom),
    \* a content that is a JSON number, a schema that is a JSON array
    Call(JNum(7), SchemaDict, dAcmeCom),
    Call(JStr(hAcmeInc), JList(<<JStr(sCompanyName)>>), dAcmeCom) }

\* "field": {"value": value, "confidence": confidence}
FieldToks(field, value, confidence) ==
  <<StrTok(field), Tok(":"), Tok("{"), StrTok(sValue), Tok(":"), value, Tok(","),
    StrTok(sConfidence), Tok(":"), confidence, Tok("}")>>
\* {"extractions": {fields}}
AnswerToks(fields) ==
  <<Tok("{"), StrTok(sExtractions), Tok(":"), Tok("{")>> \o fields \o <<Tok("}"), Tok("}")>>
tAcmeAnswer == AnswerToks(FieldToks(sCompanyName, StrTok(sAcmeInc), NumTok(90)))

ReplyTexts ==
  { \* the empty text, and prose
    <<>>,
    <<ProseTok(<<"S","o","r","r","y">>)>>,
    \* the answer asked for; the same between prose, as in a fenced block
    tAcmeAnswer,
    <<ProseTok(<<"S","u","r","e">>)>> \o tAcmeAnswer \o <<ProseTok(<<"D","o","n","e">>)>>,
    \* an answer cut short; braces around prose; a closing before an opening brace
    SubSeq(tAcmeAnswer, 1, 6),
    <<Tok("{"), ProseTok(<<"S","o","r","r","y">>), Tok("}")>>,
    <<Tok("}"), Tok("{")>>,
    \* JSON that is no object: [1], null, "Acme Inc"
    <<Tok("["), NumTok(1), Tok("]")>>,
    <<Tok("null")>>,
    <<StrTok(sAcmeInc)>>,
    \* objects without, or with another kind of, "extractions"
    <<Tok("{"), Tok("}")>>,
    <<Tok("{"), StrTok(sExtractions), Tok(":"), Tok("null"), Tok("}")>>,
    <<Tok("{"), StrTok(sExtractions), Tok(":"), Tok("["), Tok("]"), Tok("}")>>,
    \* a value without a legal suffix
    AnswerToks(FieldToks(sCompanyName, StrTok(sAcme), NumTok(80))),
    \* a value absent from the text; a value that is a number; no value
    AnswerToks(FieldToks(sCompanyName, StrTok(sZetaAG), NumTok(0))),
    AnswerToks(FieldToks(sCompanyName, NumTok(7), NumTok(90))),
    AnswerToks(FieldToks(sCompanyName, Tok("null"), NumTok(90))),
    \* a confidence that is a string
    AnswerToks(FieldToks(sCompanyName, StrTok(sAcmeInc), StrTok(sHigh))),
    \* two fields, the second one a string instead of an object
    AnswerToks(FieldToks(sCompanyName, StrTok(sAcmeInc), NumTok(90))
                 \o <<Tok(","), StrTok(sLegalEntityName), Tok(":"), StrTok(sAcmeInc)>>),
    \* two well-formed fields, the second without confidence but with a context
    AnswerToks(FieldToks(sCompanyName, StrTok(sAcmeInc), NumTok(90))
                 \o <<Tok(","), StrTok(sLegalEntityName), Tok(":"), Tok("{"),
                      StrTok(sValue), Tok(":"), StrTok(sZetaAG), Tok(","),
                      StrTok(sContext), Tok(":"), StrTok(sFooter), Tok("}")>>) }

\* what generate_content(prompt) may do
Replies ==
  { [kind |-> "raises", exc |-> "DeadlineExceeded"],
    [kind |-> "None"],
    [kind |-> "no text"],
    [kind |-> "text raises", exc |-> "ValueError"],
    [kind |-> "text None"] }
  \cup {[kind |-> "text", text |-> t] : t \in ReplyTexts}

\* the milliseconds a call may take: 0..MaxElapsed
MaxElapsed == 1

LangInit ==
  /\ langModel \in {Null, Some(model_name)}
  /\ langSeed \in HashSeeds
  /\ langCall \in LangCalls
  /\ langReply = NoReply
  /\ langResult = NoCall
  /\ ExtractIdle /\ IdentityIdle /\ HistoryIdle /\ ShellIdle /\ ServiceIdle

\* result = service.extract_entities(html_content, schema, domain)
CallExtractEntities ==
  /\ langResult = NoCall
  /\ \E reply \in Replies, elapsed \in 0..MaxElapsed :
       /\ langReply' = reply
       /\ langResult' = ExtractEntities(langModel, langCall, langSeed, reply, elapsed)
  /\ UNCHANGED <<langModel, langSeed, langCall, extractVars, identityVars, historyVars,
                 shellVars, serviceVars>>

LangNext == CallExtractEntities

SpecLang == LangInit /\ [][LangNext]_vars

(***************************************************************************)
(* Properties of extract_entities                                          *)
(***************************************************************************)
LangCalled == langResult # NoCall
\* the collaborator failed: it raised, or gave no response, or one without text
NoAnswer(reply) == reply.kind \in {"raises", "None", "no text", "text raises", "text None"}
\* the text of the answer is not valid JSON (the empty text is not)
NotJson(reply) == reply.kind = "text" /\ JsonLoads(reply.text).raised # None
\* nor does the text hold a brace-delimited span that is valid JSON
NoJsonWithin(reply) ==
  /\ NotJson(reply)
  /\ JsonMatch(reply.text) # <<>> => JsonLoads(JsonMatch(reply.text)).raised # None

\* C12, as stated: extract_entities never lets an exception escape, and when
\* the collaborator raises, returns no response, an empty response, or text that
\* is not valid JSON, the returned 'entities' list is empty.
C12_EmptyOnFailureAsStated ==
  LangCalled =>
    /\ langResult.raised = None
    /\ (NoAnswer(langReply) \/ NotJson(langReply)) => langResult.value.entities = <<>>

\* C12, amended: extract_entities never lets an exception escape, and when the
\* collaborator raises, returns no response, an empty response, or text that is
\* not valid JSON and holds no valid JSON between its first opening and its last
\* closing brace, the returned 'entities' list is empty.
C12_EmptyOnFailure ==
  LangCalled =>
    /\ langResult.raised = None
    /\ (NoAnswer(langReply) \/ NoJsonWithin(langReply)) => langResult.value.entities = <<>>

\* a configured service answered each way: the collaborator raised, its text
\* had braces around prose, and its text was no JSON at all
C12_Witness ==
  /\ LangCalled
  /\ langModel # Null
  /\ langCall.html_content.k = "str"
  /\ langCall.schema.k = "dict"
  /\ NoJsonWithin(langReply)
  /\ JsonMatch(langReply.text) # <<>>
  /\ langResult.value.entities = <<>>

(***************************************************************************)
(* Further properties of extract_from_html                                 *)
(***************************************************************************)
NoDuplicates(xs) == \A i, j \in 1..Len(xs) : xs[i] = xs[j] => i = j
\* the matches of a pattern in the text of the document the calls are made on
MatchesInDoc(pattern) == FindAll(pattern, GetText(doc.title, doc.body), FALSE)

\* C13: in every result of extract_from_html, 'emails' and 'phones' each hold
\* at most 5 entries and no entry twice, however many matches the document has.
C13_ContactsCappedAndDistinct ==
  Returned =>
    /\ Len(result.value.emails) <= 5 /\ NoDuplicates(result.value.emails)
    /\ Len(result.value.phones) <= 5 /\ NoDuplicates(result.value.phones)

\* a document with more than five matches of each kind, some of them repeated,
\* returned five of each
C13_Witness ==
  /\ Returned
  /\ Len(MatchesInDoc(email_pattern)) > 5 /\ ~NoDuplicates(MatchesInDoc(email_pattern))
  /\ Len(MatchesInDoc(phone_pattern)) > 5 /\ ~NoDuplicates(MatchesInDoc(phone_pattern))
  /\ Len(result.value.emails) = 5
  /\ Len(result.value.phones) = 5

\* the names the Organization JSON-LD blocks of a document declare, in
\* document order
OrganizationNames(d) ==
  Bind(SelectSeq(d.scripts, LAMBDA el :
         /\ el.tag = "script" /\ el.type = "application/ld+json"
         /\ el.string.kind = "object" /\ el.string.type = "Organization"
         /\ Truthy(el.string.name)),
       LAMBDA blocks : [i \in 1..Len(blocks) |-> blocks[i].string.name])

\* the cleaned contents of the og:site_name meta tags of a document that
\* survive cleaning, in document order
SiteNames(d) ==
  Bind(SelectSeq(d.metas, LAMBDA meta :
         /\ "og:site_name" \in {meta.name, meta.property}
         /\ Truthy(meta.content)
         /\ Truthy(CleanEntityName(meta.content))),
       LAMBDA tags : [i \in 1..Len(tags) |-> CleanEntityName(tags[i].content)])

\* C15: for every document that embeds a JSON-LD block of type Organization
\* declaring a name, that name is among the returned 'entities'.
C15_OrganizationNameReturned ==
  Returned =>
    \A i \in 1..Len(OrganizationNames(doc)) : OrganizationNames(doc)[i] \in EntitySet

\* C16: when a document has an Organization name and no og:site_name
\* candidate, primary_entity is the first Organization name, whatever the
\* title and copyright candidates are.
C16_OrganizationNameIsPrimary ==
  (Returned /\ OrganizationNames(doc) # <<>> /\ SiteNames(doc) = <<>>) =>
    Primary = OrganizationNames(doc)[1]

\* C17: if a document has an og:site_name meta tag whose content survives
\* cleaning, primary_entity is the cleaned content of the first such tag; no
\* later meta tag and no copyright candidate with a corporate suffix replaces it.
C17_FirstSiteNameIsPrimary ==
  (Returned /\ SiteNames(doc) # <<>>) => Primary = SiteNames(doc)[1]

\* a document whose first og:site_name tag does not survive cleaning, with two
\* more behind it and a copyright candidate that carries a corporate suffix,
\* returned the cleaned content of the second tag
C17_Witness ==
  /\ Returned
  /\ doc.metas = <<mShort, mShell, mAcme>>
  /\ doc.body = bAcmeNotice
  /\ Len(SiteNames(doc)) = 2
  /\ sAcmeWidgetsLtd \in EntitySet /\ HasCorporateSuffix(sAcmeWidgetsLtd)
  /\ Primary = <<"S","h","e","l","l"," ","p","l","c">>

(***************************************************************************)
(* Further properties of get_domain_hash                                   *)
(***************************************************************************)
\* the records of the answered identity key with the least and the greatest
\* created_at
EarliestOfAnswer ==
  RecordsOfAnswer[CHOOSE i \in 1..Len(RecordsOfAnswer) :
    \A j \in 1..Len(RecordsOfAnswer) :
      RecordsOfAnswer[i].created_at <= RecordsOfAnswer[j].created_at]
LatestOfAnswer ==
  RecordsOfAnswer[CHOOSE i \in 1..Len(RecordsOfAnswer) :
    \A j \in 1..Len(RecordsOfAnswer) :
      RecordsOfAnswer[j].created_at <= RecordsOfAnswer[i].created_at]

ExportAnswered(endpoint) ==
  reportResponse.status_code = 200 /\ reportResponse.endpoint = endpoint

\* C19: every lookup answers 404 when it finds nothing: get_domain_hash for a
\* domain without records, export_batch_with_gleif and
\* export_batch_with_gleif_fixed for a batch without rows; none of them
\* returns a successful response built from no data.
C19_EmptyLookupIsNotFound ==
  /\ Answered => RecordsOfAnswer # <<>>
  /\ ExportAnswered("/export/{batch_id}") => reportResponse.body # <<>>
  /\ ExportAnswered("/export/batch/{batch_id}/with-gleif-fixed")
       => reportResponse.export_data # <<>>

(***************************************************************************)
(* Properties of the selection report                                      *)
(***************************************************************************)
MarkedCandidates == {c \in RegistryCandidates : c.is_primary_selection = Some(TRUE)}
ReportedPrimary == shellResponse.analysis.selection_quality.primary_candidate
ReportedCandidates == shellResponse.lei_candidates

\* C20: the analysis reports the selection and does not change it:
\* primary_candidate is the marked candidate of lowest rank_position, null
\* when no candidate is marked, and lei_candidates holds the candidates the
\* query read, each once, with every field as stored, in rank_position order.
C20_SelectionReportedUnchanged ==
  Analysed =>
    /\ MarkedCandidates = {} => ReportedPrimary = Null
    /\ MarkedCandidates # {} =>
         /\ ReportedPrimary # Null
         /\ ReportedPrimary[1] \in MarkedCandidates
         /\ \A c \in MarkedCandidates :
              ReportedPrimary[1].rank_position[1] <= c.rank_position[1]
    /\ RegistryCandidates = {} => ReportedCandidates = <<NullCandidate>>
    /\ RegistryCandidates # {} =>
         /\ Len(ReportedCandidates) = Cardinality(RegistryCandidates)
         /\ {ReportedCandidates[i] : i \in 1..Len(ReportedCandidates)} = RegistryCandidates
         /\ \A i \in 1..(Len(ReportedCandidates) - 1) :
              ReportedCandidates[i].rank_position[1]
                < ReportedCandidates[i + 1].rank_position[1]

\* seven candidates, those of rank 3 and 5 marked: the one of rank 3 reported
C20_Witness ==
  /\ Analysed
  /\ Cardinality(RegistryCandidates) = 7
  /\ Cardinality(MarkedCandidates) = 2
  /\ ReportedPrimary # Null
  /\ ReportedPrimary[1].rank_position = Some(3)
  /\ Len(ReportedCandidates) = 7

(***************************************************************************)
(* Further properties of extract_entities                                  *)
(***************************************************************************)
\* the call reached the collaborator: a configured service, a str content and
\* a dict schema
Submitted ==
  /\ LangCalled
  /\ langModel # Null
  /\ langCall.html_content.k = "str"
  /\ langCall.schema.k = "dict"

\* the fields of the collaborator's answer: the members of "extractions" of
\* the object its text holds, <<>> when the text holds no such object
AnswerFields(reply) ==
  IF reply.kind # "text" THEN <<>>
  ELSE Bind(GenerateContent(reply, 0), LAMBDA answered :
         IF answered.kind # "next" \/ answered.value.k # "dict" THEN <<>>
         ELSE Bind(Get(answered.value, sExtractions, JDict(<<>>)), LAMBDA extractions :
                IF extractions.k # "dict" THEN <<>> ELSE extractions.members))

\* a field entry as the prompt asks for it: an object with a non-empty string
\* value and a confidence that, when given, is a number
WellFormedField(entry) ==
  /\ entry.k = "dict"
  /\ Get(entry, sValue, JNull).k = "str"
  /\ Get(entry, sValue, JNull).s # <<>>
  /\ Get(entry, sConfidence, JNum(DefaultConfidence)).k = "int"

EntityTypes(entities) == {entities[i].type : i \in 1..Len(entities)}

\* C21: a failure confined to one field of the collaborator's answer leaves
\* only that field without an entity: every well-formed field of the answer
\* is returned as an entity.
C21_FieldFailureIsLocal ==
  Submitted =>
    \A m \in 1..Len(AnswerFields(langReply)) :
      WellFormedField(AnswerFields(langReply)[m].val)
        => AnswerFields(langReply)[m].key \in EntityTypes(langResult.value.entities)

\* text_content of the call made
PreparedText == TextContent(langCall.html_content.s, langCall.domain, langSeed)

\* a field entry on which lines 209-218 raise
FieldRaises(entry) ==
  /\ JTruthy(entry)
  /\ \/ entry.k # "dict"
     \/ /\ JTruthy(Get(entry, sValue, JNull))
        /\ ~WellFormedField(entry)

\* the 0-based indices at which value occurs in text
Occurrences(text, value) ==
  {i \in 0..(Len(text) - Len(value)) : SubSeq(text, i + 1, i + Len(value)) = value}

\* the position of an entity as the lookup of value in text gives it: the
\* first occurrence, or 0 and the length of value when there is none
Located(location, occurrences, length) ==
  /\ location.start >= 0
  /\ location.end - location.start = length
  /\ IF occurrences = {} THEN location.start = 0
     ELSE location.start \in occurrences /\ \A i \in occurrences : location.start <= i

\* every field of the answer that has a non-empty value is an entity located in text
EveryValueLocatedIn(text) ==
  \A m \in 1..Len(AnswerFields(langReply)) :
    WellFormedField(AnswerFields(langReply)[m].val) =>
      \E e \in 1..Len(langResult.value.entities) :
        /\ langResult.value.entities[e].type = AnswerFields(langReply)[m].key
        /\ langResult.value.entities[e].text = Get(AnswerFields(langReply)[m].val, sValue, JNull).s
        /\ Located(langResult.value.entities[e].sourceLocation,
                   Occurrences(text, langResult.value.entities[e].text),
                   Len(langResult.value.entities[e].text))

NoFieldRaises ==
  \A m \in 1..Len(AnswerFields(langReply)) : ~FieldRaises(AnswerFields(langReply)[m].val)

Tasks == 1..2

\* the documents of the invocations
TaskDoc(title, metas, body) ==
  [domain |-> "acme.com", title |-> title, metas |-> metas,
   scripts |-> <<eStyle, eOrganization, eBrokenLd, eEmptyLd>>, body |-> body]
TaskDocs ==
  << TaskDoc(sShellBrand, <<mShort, mShell, mAcme>>, bAcmeNotice),
     TaskDoc(sShellBrand, <<mShort, mShell, mAcme>>, bZetaContact),
     TaskDoc(sShellBrand, <<>>, bAcmeNotice),
     TaskDoc(sShellBrand, <<>>, bZetaContact),
     TaskDoc(tWelcomeAcme, <<mShort, mShell, mAcme>>, bAcmeNotice),
     TaskDoc(tWelcomeAcme, <<mShort, mShell, mAcme>>, bZetaContact),
     TaskDoc(tWelcomeAcme, <<>>, bAcmeNotice),
     TaskDoc(tWelcomeAcme, <<>>, bZetaContact) >>

\* the locals of an invocation before its first step
NewFrame == [soup |-> <<>>, result |-> <<>>, returned |-> NoCall]

\* a faulty variant: one frame for all invocations
SharedFrame(task) == 1

\* the frame that holds the local variables of an invocation: its own
FrameOf(task) == task

\* the steps of extract_from_html in the order they are taken
NextPc(pc) ==
  CASE pc = "soup" -> "title"
    [] pc = "title" -> "meta"
    [] pc = "meta" -> "jsonld"
    [] pc = "jsonld" -> "copyright"
    [] pc = "copyright" -> "contacts"
    [] pc = "contacts" -> "done"

\* the locals after the step at pc
NextFrame(pc, d, seed, frame) ==
  CASE pc = "soup" ->
         \* lines 63-81: the tree without script and style, and the new result
         [frame EXCEPT !.soup = Decompose(d.scripts), !.result = NewResult(d)]
    [] pc = "title" ->
         [frame EXCEPT !.result = TitleStep(d, @)]
    [] pc = "meta" ->
         [frame EXCEPT !.result = MetaLoop(d.metas, 1, @)]
    [] pc = "jsonld" ->
         [frame EXCEPT !.result = JsonLdLoop(FindJsonLd(frame.soup), 1, @)]
    [] pc = "copyright" ->
         [frame EXCEPT !.result = CopyrightStep(GetText(d.title, d.body), @)]
    [] pc = "contacts" ->
         [frame EXCEPT !.returned = Finish(GetText(d.title, d.body), seed, frame.result)]

ConcurrentInit ==
  /\ hashSeed \in HashSeeds
  /\ doc = <<>> /\ calls = 0 /\ result = NoCall /\ prevResult = NoCall
  /\ \E i, j \in 1..Len(TaskDocs) :
       i < j /\ taskDoc = [task \in Tasks |-> IF task = 1 THEN TaskDocs[i] ELSE TaskDocs[j]]
  /\ taskPc = [task \in Tasks |-> "soup"]
  /\ frames = [task \in Tasks |-> NewFrame]
  /\ IdentityIdle /\ HistoryIdle /\ ShellIdle /\ LangIdle /\ RulesIdle /\ PipeIdle

\* one invocation takes its next step
ExtractStep ==
  /\ \E task \in Tasks :
       /\ taskPc[task] # "done"
       /\ frames' = [frames EXCEPT ![FrameOf(task)] =
                       NextFrame(taskPc[task], taskDoc[task], hashSeed, frames[FrameOf(task)])]
       /\ taskPc' = [taskPc EXCEPT ![task] = NextPc(@)]
  /\ UNCHANGED <<taskDoc, extractVars, identityVars, historyVars, shellVars, langVars,
                 ruleVars, pipeVars>>

ConcurrentNext == ExtractStep

SpecConcurrent == ConcurrentInit /\ [][ConcurrentNext]_vars

TaskDone(task) == taskPc[task] = "done"

\* C23: invocations of extract_from_html on different documents do not
\* interfere: however their steps interleave, each returns what it returns
\* when it runs alone.
C23_InvocationsDoNotInterfere ==
  \A task \in Tasks :
    TaskDone(task) => frames[task].returned = ExtractFromHtml(taskDoc[task], hashSeed)

\* two invocations have returned, with different primary entities
C23_Witness ==
  /\ \A task \in Tasks : TaskDone(task) /\ frames[task].returned.raised = None
  /\ frames[1].returned.value.primary_entity = <<"S","h","e","l","l"," ","p","l","c">>
  /\ frames[2].returned.value.primary_entity = sAcmeCorp

(***************************************************************************)
(* Further properties of the selection report                              *)
(***************************************************************************)
ReportedBreakdown == shellResponse.analysis.selection_quality.entity_status_breakdown

\* the sum of the counts of a breakdown
RECURSIVE SumOfCounts(_, _)
SumOfCounts(breakdown, statuses) ==
  IF statuses = {} THEN 0
  ELSE Bind(CHOOSE status \in statuses : TRUE, LAMBDA status :
         breakdown[status] + SumOfCounts(breakdown, statuses \ {status}))

\* C24: the entity_status breakdown counts every candidate exactly once: each
\* candidate's status, null included, is a key whose count is the number of
\* candidates of that status, and the counts sum to the number of candidates.
C24_BreakdownCountsEveryCandidate ==
  Analysed =>
    /\ \A i \in 1..Len(ReportedCandidates) :
         /\ ReportedCandidates[i].entity_status \in DOMAIN ReportedBreakdown
         /\ ReportedBreakdown[ReportedCandidates[i].entity_status]
              = Cardinality({j \in 1..Len(ReportedCandidates) :
                               ReportedCandidates[j].entity_status
                                 = ReportedCandidates[i].entity_status})
    /\ SumOfCounts(ReportedBreakdown, DOMAIN ReportedBreakdown)
         = shellResponse.analysis.total_candidates
    /\ shellResponse.analysis.total_candidates = Len(ReportedCandidates)

\* ten candidates, three of them without a status
C24_Witness ==
  /\ Analysed
  /\ shellResponse.analysis.total_candidates = 10
  /\ Null \in DOMAIN ReportedBreakdown
  /\ ReportedBreakdown[Null] = 3
  /\ ReportedBreakdown[Some("ACTIVE")] = 4
  /\ ReportedBreakdown[Some("INACTIVE")] = 3

(***************************************************************************)
(* The cleaning rules called on their own                                  *)
(***************************************************************************)
sVisa == <<"V","i","s","a">>
sRedRose == <<"R","e","d"," ","R","o","s","e">>
sAcmeSE == <<"A","c","m","e"," ","S","E">>
sPartners == <<"P","a","r","t","n","e","r","s">>
sGroup == <<"G","r","o","u","p">>

\* the last words the names end in: the suffixes of the service, and others
LastWords ==
  {corporate_suffixes[k] : k \in 1..Len(corporate_suffixes)} \cup {sPartners, sGroup}

\* names: a stem, a last word written as listed, in lower or in upper case,
\* set apart by a blank or joined to the stem, with or without a period
SuffixNames ==
  {sVisa, sRedRose, sAcmeSE, <<>>}
    \cup {stem \o sep \o word \o dot :
            stem \in {sAcme, sZetaPartners},
            sep \in {<<>>, <<" ">>},
            word \in LastWords \cup {StrLower(w) : w \in LastWords}
                      \cup {[i \in 1..Len(w) |-> ToUpper(w[i])] : w \in LastWords},
            dot \in {<<>>, <<".">>}}

SuffixInit ==
  /\ suffixName \in SuffixNames
  /\ suffixAnswer = NoAnswerYet
  /\ titleText = <<>> /\ titleAnswer = NoCall
  /\ ExtractIdle /\ IdentityIdle /\ HistoryIdle /\ ShellIdle /\ LangIdle /\ TasksIdle
  /\ PipeIdle

\* self._has_corporate_suffix(name)
CallHasCorporateSuffix ==
  /\ suffixAnswer = NoAnswerYet
  /\ suffixAnswer' = [returned |-> HasCorporateSuffix(suffixName)]
  /\ UNCHANGED <<suffixName, titleText, titleAnswer, extractVars, identityVars,
                 historyVars, shellVars, langVars, taskVars, pipeVars>>

SuffixNext == CallHasCorporateSuffix

SpecSuffix == SuffixInit /\ [][SuffixNext]_vars

\* the suffixes the description of the rule lists
ListedSuffixes ==
  { <<"I","n","c">>, <<"C","o","r","p">>, <<"L","L","C">>, <<"L","t","d">>,
    <<"G","m","b","H">>, <<"A","G">>, <<"S","A">>, <<"S","A","S">>, <<"S","p","A">>,
    <<"B","V">>, <<"N","V">>, <<"P","t","y">>, <<"P","L","C">>,
    <<"L","i","m","i","t","e","d">>, <<"C","o","r","p","o","r","a","t","i","o","n">>,
    <<"C","o","m","p","a","n","y">>, <<"I","n","c","o","r","p","o","r","a","t","e","d">> }

\* the final word of a name: what follows its last blank
FinalWord(name) ==
  Bind({i \in 1..Len(name) : name[i] = " "}, LAMBDA blanks :
    IF blanks = {} THEN name ELSE SubSeq(name, MaxOf(blanks) + 1, Len(name)))

\* a word is a listed suffix, whatever its case, with or without a period
IsListedSuffix(word) ==
  \E suffix \in ListedSuffixes :
    StrLower(word) = StrLower(suffix) \/ StrLower(word) = StrLower(suffix) \o <<".">>

\* C25: _has_corporate_suffix returns true exactly for the names whose final
\* word is one of the listed suffixes (case-insensitive, optionally followed
\* by a period): false for "Acme SE", "Visa" and "Red Rose".
C25_SuffixIsFinalWord ==
  suffixAnswer # NoAnswerYet =>
    (suffixAnswer.returned <=> IsListedSuffix(FinalWord(suffixName)))

(***************************************************************************)
(* Properties of the copyright notices                                     *)
(***************************************************************************)
\* the candidates of the sources scanned before the copyright notices
EarlierCandidates(d) ==
  JsonLdLoop(FindJsonLd(Decompose(d.scripts)), 1,
             MetaLoop(d.metas, 1, TitleStep(d, NewResult(d)))).entities

\* the names of the notices of a text: from after the marker and the year up
\* to the following period, comma, "All" or "Rights", cleaned
NoticeNames(text) ==
  Bind(CopyrightEntities(FindAll(copyright_patterns[1], text, TRUE), 1), LAMBDA names :
    {names[i] : i \in 1..Len(names)})

\* C26: a copyright notice contributes to 'entities' only its name, which
\* runs from after the marker and the optional year up to the following
\* period, comma, "All" or "Rights", and no shorter fragment of it: an entity
\* that no earlier source gave is the name of a notice.
C26_OnlyTheNoticeName ==
  Returned =>
    \A i \in 1..Len(Entities) :
      \/ \E k \in 1..Len(EarlierCandidates(doc)) : EarlierCandidates(doc)[k] = Entities[i]
      \/ Entities[i] \in NoticeNames(GetText(doc.title, doc.body))

(***************************************************************************)
(* _clean_title_entity called on its own                                   *)
(***************************************************************************)
sDepot == <<"D","e","p","o","t">>
sBaseInc == <<"b","a","s","e"," ","I","n","c">>

\* titles: a leading part (nothing, a phrase of the rule as listed or in
\* lower case, or two phrases), joined to or set apart from a name, then
\* nothing, a separator with a second segment, or a marketing term
TitleLeads ==
  {<<>>} \cup {prefixes[k] : k \in 1..Len(prefixes)}
    \cup {StrLower(prefixes[2]), prefixes[1] \o <<" ">> \o prefixes[2]}
TitleTexts ==
  {lead \o joint \o name \o tail :
     lead \in TitleLeads,
     joint \in {<<>>, <<" ">>},
     name \in {sDepot, sBaseInc, sAcmeCorp},
     tail \in {<<>>, <<" ","|"," ">> \o prefixes[2], <<" ">> \o marketing_terms[1]}}

TitleInit ==
  /\ titleText \in TitleTexts
  /\ titleAnswer = NoCall
  /\ suffixName = <<>> /\ suffixAnswer = NoAnswerYet
  /\ ExtractIdle /\ IdentityIdle /\ HistoryIdle /\ ShellIdle /\ LangIdle /\ TasksIdle
  /\ PipeIdle

\* self._clean_title_entity(title)
CallCleanTitleEntity ==
  /\ titleAnswer = NoCall
  /\ titleAnswer' = [raised |-> None, value |-> CleanTitleEntity(titleText)]
  /\ UNCHANGED <<titleText, suffixName, suffixAnswer, extractVars, identityVars,
                 historyVars, shellVars, langVars, taskVars, pipeVars>>

TitleNext == CallCleanTitleEntity

SpecTitle == TitleInit /\ [][TitleNext]_vars

\* a segment starts with a phrase as whole words: the phrase, in any case,
\* then the end of the segment or a blank
StartsWithPhrase(segment, phrase) ==
  /\ StartsWith(StrLower(segment), StrLower(phrase))
  /\ Len(segment) = Len(phrase) \/ segment[Len(phrase) + 1] \in Space

\* the segment without its leading phrase, if it starts with one: one
\* phrase is removed, what follows is kept
WithoutLeadingPhrase(segment) ==
  Bind({k \in 1..Len(prefixes) : StartsWithPhrase(segment, prefixes[k])}, LAMBDA leading :
    IF leading = {} THEN segment
    ELSE Strip(DropFirst(segment, Len(prefixes[MinOf(leading)]))))

\* the entity of a title when leading phrases are removed as whole words and
\* once
TitleEntityByWords(title) ==
  Bind(RemoveMarketingTerms(
         WithoutLeadingPhrase(ReSplitFirst(TitleSeparator, title, FALSE)), 1),
       LAMBDA cleaned : IF Len(cleaned) > 2 THEN cleaned ELSE NoneStr)

\* C27: _clean_title_entity removes a leading phrase only when the first
\* segment of the title starts with it as whole words, and removes at most
\* one phrase: "Homebase Inc" is returned intact and "Welcome to Home Depot"
\* yields "Home Depot".
C27_LeadingPhraseAsWholeWordsOnce ==
  titleAnswer # NoCall => titleAnswer.value = TitleEntityByWords(titleText)

(***************************************************************************)
(* Further properties of the reports                                       *)
(***************************************************************************)
\* the observation records of a reported domain
RecordsOfDomain(domain) == SelectSeq(domains, LAMBDA r : r.domain = domain)

\* C28: in the cross-batch report, total_processing_attempts of a domain is
\* the number of observation records of that domain, however many registry
\* candidates are attached to those records.
C28_AttemptsCountRecords ==
  IntelligenceAnswered =>
    \A i \in 1..Len(reportResponse.cross_batch_domains) :
      reportResponse.cross_batch_domains[i].total_processing_attempts
        = Len(RecordsOfDomain(reportResponse.cross_batch_domains[i].domain))

(***************************************************************************)
(* The processing service: POST /process schedules a run of                *)
(* process_dump_async, which reads the dump, extracts and saves one        *)
(* processing result.  A run gives way to other runs at its awaits: the    *)
(* read of the dump and the insert of the result.                          *)
(***************************************************************************)
MaxRequests == 2

sHtml == <<"h", "t", "m", "l">>
sPages == <<"p", "a", "g", "e", "s">>

\* the source types /process accepts (line 359)
AcceptedSourceTypes ==
  {"crawlee_dump", "scrapy_crawl", "playwright_dump", "axios_cheerio_dump"}

\* source types a request may name
RequestSourceTypes == AcceptedSourceTypes \cup {"wayback_dump"}

\* lines 229-234
table_map ==
  [source_type \in AcceptedSourceTypes |->
     CASE source_type = "crawlee_dump" -> "crawlee_dumps"
       [] source_type = "scrapy_crawl" -> "scrapy_crawls"
       [] source_type = "playwright_dump" -> "playwright_dumps"
       [] source_type = "axios_cheerio_dump" -> "axios_cheerio_dumps"]

\* a page: its mark-up is a string of one piece, the document it spells
PageWithNames == TaskDocs[1]
PageWithoutNames == TaskDoc(NoneStr, <<>>, <<>>)
HtmlOf(page) == <<page>>

\* the text of a dump that holds html, as the first page and at the top
DumpToks(html) ==
  << Tok("{"), StrTok(sPages), Tok(":"), Tok("["), Tok("{"), StrTok(sHtml), Tok(":"),
     StrTok(html), Tok("}"), Tok("]"), Tok(","), StrTok(sHtml), Tok(":"), StrTok(html),
     Tok("}") >>

\* a dump text that breaks off
BrokenDumpToks == << Tok("{"), StrTok(sPages), Tok(":"), Tok("[") >>

\* a dump with no page and an empty html
EmptyDumpToks ==
  << Tok("{"), StrTok(sPages), Tok(":"), Tok("["), Tok("]"), Tok(","), StrTok(sHtml),
     Tok(":"), StrTok(<<>>), Tok("}") >>

\* values of the dump_data column: JSON text, a decoded object, NULL
DumpValues ==
  { JStr(DumpToks(HtmlOf(PageWithNames))),
    JStr(DumpToks(HtmlOf(PageWithoutNames))),
    JsonLoads(DumpToks(HtmlOf(PageWithNames))).value,
    JStr(BrokenDumpToks),
    JStr(EmptyDumpToks),
    JNull }

DumpRow(dump_data) == [id |-> 1, domain |-> "acme.com", dump_data |-> dump_data]

\* the databases: no dump, or one dump in one of the tables
DumpTables ==
  {NoDumps} \cup
  { [NoDumps EXCEPT ![table_map[source_type]] = {DumpRow(dump_data)}] :
      source_type \in AcceptedSourceTypes, dump_data \in DumpValues }

NoRow == [absent |-> TRUE]
NoId == <<>>

\* get_dump_data(source_type, source_id), lines 224-249
GetDumpData(pool, tables, source_type, source_id) ==
  IF pool = "None" THEN [raised |-> None, value |-> NoRow]
  ELSE IF source_type \notin DOMAIN table_map THEN [raised |-> None, value |-> NoRow]
  ELSE IF pool = "closed" THEN [raised |-> "InterfaceError", value |-> NoRow]
  ELSE Bind({row \in tables[table_map[source_type]] : row.id = source_id}, LAMBDA found :
         IF found = {} THEN [raised |-> None, value |-> NoRow]
         ELSE [raised |-> None, value |-> CHOOSE row \in found : TRUE])

\* if isinstance(dump_json, str): dump_json = json.loads(dump_json)
LoadsIfStr(dump_json) ==
  IF dump_json.k = "str" THEN JsonLoads(dump_json.s)
  ELSE [raised |-> None, value |-> dump_json]

\* value.get(key, default)
GetOf(value, key, default) ==
  IF value.k = "dict" THEN [raised |-> None, value |-> Get(value, key, default)]
  ELSE [raised |-> "AttributeError", value |-> JNull]

\* pages[0]
FirstOf(pages) ==
  CASE pages.k = "list" -> [raised |-> None, value |-> pages.items[1]]
    [] pages.k = "str" -> [raised |-> None, value |-> JStr(<<pages.s[1]>>)]
    [] pages.k = "dict" -> [raised |-> "KeyError", value |-> JNull]
    [] OTHER -> [raised |-> "TypeError", value |-> JNull]

\* lines 302-315: html_content, None for a source type the chain does not name
HtmlContent(source_type, dump_data) ==
  CASE source_type = "crawlee_dump" ->
         Bind(LoadsIfStr(dump_data.dump_data), LAMBDA dump_json :
           IF dump_json.raised # None THEN dump_json
           ELSE Bind(GetOf(dump_json.value, sPages, JList(<<>>)), LAMBDA pages :
                  IF pages.raised # None THEN pages
                  ELSE IF ~JTruthy(pages.value) THEN [raised |-> None, value |-> JNull]
                  ELSE Bind(FirstOf(pages.value), LAMBDA page :
                         IF page.raised # None THEN page
                         ELSE GetOf(page.value, sHtml, JStr(<<>>)))))
    [] source_type = "axios_cheerio_dump" ->
         Bind(LoadsIfStr(dump_data.dump_data), LAMBDA dump_json :
           IF dump_json.raised # None THEN dump_json
           ELSE GetOf(dump_json.value, sHtml, JStr(<<>>)))
    [] OTHER -> [raised |-> None, value |-> JNull]

\* the row save_processing_result inserts (lines 264-285), id from the sequence
ResultRow(id, source_type, source_id, domain, extracted_data) ==
  [id |-> id, source_type |-> source_type, source_id |-> source_id, domain |-> domain,
   stage2_model_used |-> "fastapi_extractor",
   stage3_entity_name |-> extracted_data.primary_entity,
   stage3_entity_confidence |-> IF Truthy(extracted_data.primary_entity) THEN 95 ELSE 0,
   processing_status |-> "completed"]

\* INSERT INTO beta_v2_processing_results ... RETURNING id
InsertResult(rows, row) == Append(rows, row)

\* save_processing_result, lines 251-288: the table afterwards and the new id
SaveProcessingResult(pool, rows, source_type, source_id, domain, extracted_data) ==
  IF pool = "None" THEN [raised |-> "HTTPException", rows |-> rows, id |-> NoId]
  ELSE IF pool = "closed" THEN [raised |-> "InterfaceError", rows |-> rows, id |-> NoId]
  ELSE [raised |-> None,
        rows |-> InsertResult(rows, ResultRow(Len(rows) + 1, source_type, source_id,
                                              domain, extracted_data)),
        id |-> <<Len(rows) + 1>>]

\* how a stretch of process_dump_async ends: the message logged last, the
\* exception on its way out, the table and the id of the saved row
Ended(log, rows) == [log |-> log, raised |-> None, rows |-> rows, processing_id |-> NoId]
Raising(exc, rows) == [log |-> "Processing", raised |-> exc, rows |-> rows, processing_id |-> NoId]

\* lines 302-332: from the dump to the saved result
AfterDump(pool, rows, seed, source_type, source_id, dump_data) ==
  Bind(HtmlContent(source_type, dump_data), LAMBDA html_content :
    IF html_content.raised # None THEN Raising(html_content.raised, rows)
    ELSE IF ~JTruthy(html_content.value) THEN Ended("No HTML content found", rows)
    ELSE IF html_content.value.k # "str" THEN Raising("TypeError", rows)
    ELSE Bind(ExtractFromHtml([html_content.value.s[1] EXCEPT !.domain = dump_data.domain],
                              seed),
              LAMBDA extracted_data :
                IF extracted_data.raised # None THEN Raising(extracted_data.raised, rows)
                ELSE Bind(SaveProcessingResult(pool, rows, source_type, source_id,
                                               dump_data.domain, extracted_data.value),
                          LAMBDA saved :
                            IF saved.raised # None THEN Raising(saved.raised, rows)
                            ELSE [log |-> "Saved processing result", raised |-> None,
                                  rows |-> saved.rows, processing_id |-> saved.id])))

\* a faulty variant: no handler, the exception leaves the run
ExceptNothing(ending) == ending

\* lines 335-336: except Exception as e: logger.error(...)
ExceptLogged(ending) ==
  IF ending.raised # None
  THEN [ending EXCEPT !.log = "Error processing dump", !.raised = None]
  ELSE ending

\* a run as add_task leaves it (lines 363-367)
NewTask(source_type, source_id) ==
  [source_type |-> source_type, source_id |-> source_id, pc |-> "scheduled",
   dump_data |-> NoRow, log |-> "", raised |-> None, processing_id |-> NoId]

ProcessInit ==
  /\ hashSeed \in HashSeeds
  /\ doc = <<>> /\ calls = 0 /\ result = NoCall /\ prevResult = NoCall
  /\ db_pool \in {"None", "open"}
  /\ dumps \in DumpTables
  /\ background_tasks = <<>>
  /\ beta_v2_processing_results = <<>>
  /\ processResponse = NoResponse
  /\ IdentityIdle /\ HistoryIdle /\ ShellIdle /\ LangIdle /\ TasksIdle /\ RulesIdle

ProcessUnchanged ==
  UNCHANGED <<extractVars, identityVars, historyVars, shellVars, langVars, taskVars, ruleVars>>

\* POST /process, lines 354-373
ProcessDump ==
  /\ Len(background_tasks) < MaxRequests
  /\ \E source_type \in RequestSourceTypes :
       IF source_type \notin AcceptedSourceTypes
       THEN /\ processResponse' = [status_code |-> 400, detail |-> "Invalid source type",
                                   source_type |-> source_type]
            /\ UNCHANGED background_tasks
       ELSE /\ background_tasks' = Append(background_tasks, NewTask(source_type, 1))
            /\ processResponse' = [status_code |-> 200, success |-> TRUE, processing_id |-> 1,
                                   source_type |-> source_type]
  /\ UNCHANGED <<db_pool, dumps, beta_v2_processing_results>>
  /\ ProcessUnchanged

\* process_dump_async up to the return of get_dump_data (lines 292-299)
ReadDump ==
  /\ \E t \in 1..Len(background_tasks) :
       /\ background_tasks[t].pc = "scheduled"
       /\ Bind(GetDumpData(db_pool, dumps, background_tasks[t].source_type,
                           background_tasks[t].source_id),
               LAMBDA dump_data :
                 background_tasks' = [background_tasks EXCEPT ![t] =
                   IF dump_data.raised # None
                   THEN Bind(ExceptLogged(Raising(dump_data.raised, <<>>)), LAMBDA ending :
                          [@ EXCEPT !.pc = "ended", !.log = ending.log,
                                    !.raised = ending.raised])
                   ELSE IF dump_data.value = NoRow
                   THEN [@ EXCEPT !.pc = "ended", !.log = "Dump not found"]
                   ELSE [@ EXCEPT !.pc = "fetched", !.dump_data = dump_data.value,
                                  !.log = "Processing"]])
  /\ UNCHANGED <<db_pool, dumps, beta_v2_processing_results, processResponse>>
  /\ ProcessUnchanged

\* process_dump_async from there to its end (lines 301-336)
ExtractAndSave ==
  /\ \E t \in 1..Len(background_tasks) :
       /\ background_tasks[t].pc = "fetched"
       /\ Bind(ExceptLogged(AfterDump(db_pool, beta_v2_processing_results, hashSeed,
                                      background_tasks[t].source_type,
                                      background_tasks[t].source_id,
                                      background_tasks[t].dump_data)),
               LAMBDA ending :
                 /\ background_tasks' = [background_tasks EXCEPT ![t] =
                      [@ EXCEPT !.pc = "ended", !.log = ending.log, !.raised = ending.raised,
                                !.processing_id = ending.processing_id]]
                 /\ beta_v2_processing_results' = ending.rows)
  /\ UNCHANGED <<db_pool, dumps, processResponse>>
  /\ ProcessUnchanged

\* shutdown_event, lines 343-347: the pool is closed and stays bound
Shutdown ==
  /\ db_pool = "open"
  /\ db_pool' = "closed"
  /\ UNCHANGED <<dumps, background_tasks, beta_v2_processing_results, processResponse>>
  /\ ProcessUnchanged

ProcessNext == ProcessDump \/ ReadDump \/ ExtractAndSave \/ Shutdown
SpecProcess == ProcessInit /\ [][ProcessNext]_vars

(***************************************************************************)
(* Properties of the processing service                                    *)
(***************************************************************************)
\* the dump rows a run is asked to process
DumpsOf(task) ==
  {row \in dumps[table_map[task.source_type]] : row.id = task.source_id}

\* the dump spells an object with a non-empty html string
HoldsHtml(row) ==
  Bind(LoadsIfStr(row.dump_data), LAMBDA dump_json :
    /\ dump_json.raised = None
    /\ dump_json.value.k = "dict"
    /\ Get(dump_json.value, sHtml, JStr(<<>>)).k = "str"
    /\ JTruthy(Get(dump_json.value, sHtml, JStr(<<>>))))

\* the saved results that carry the id a run was given
SavedBy(task) ==
  {i \in 1..Len(beta_v2_processing_results) :
     <<beta_v2_processing_results[i].id>> = task.processing_id}

\* C29: a run of an accepted request whose dump row exists and holds HTML,
\* once it has ended with the database connected, has saved exactly one
\* processing result, with status 'completed', for its dump; a request is
\* answered 400 exactly when its source type is none of the four, and only
\* requests of the four source types have runs.
C29_AcceptedRequestIsSaved ==
  /\ \A t \in 1..Len(background_tasks) :
       /\ background_tasks[t].source_type \in AcceptedSourceTypes
       /\ ( /\ background_tasks[t].pc = "ended"
            /\ db_pool = "open"
            /\ \E row \in DumpsOf(background_tasks[t]) : HoldsHtml(row) )
          => /\ Cardinality(SavedBy(background_tasks[t])) = 1
             /\ \A i \in SavedBy(background_tasks[t]) :
                  /\ beta_v2_processing_results[i].processing_status = "completed"
                  /\ beta_v2_processing_results[i].source_type = background_tasks[t].source_type
                  /\ beta_v2_processing_results[i].source_id = background_tasks[t].source_id
  /\ processResponse # NoResponse =>
       (processResponse.status_code = 400
          <=> processResponse.source_type \notin AcceptedSourceTypes)

\* the runs that have saved a result
SavingTasks == {t \in 1..Len(background_tasks) : background_tasks[t].processing_id # NoId}

\* no exception has left a run; a run that ended otherwise than by saving
\* has no result; the results are those of the saving runs, one each
RunsAndResults ==
  /\ \A t \in 1..Len(background_tasks) :
       /\ background_tasks[t].raised = None
       /\ background_tasks[t].log # "Saved processing result"
            => background_tasks[t].processing_id = NoId
       /\ background_tasks[t].processing_id # NoId
            => /\ background_tasks[t].pc = "ended"
               /\ Cardinality(SavedBy(background_tasks[t])) = 1
  /\ \A t, u \in SavingTasks :
       background_tasks[t].processing_id = background_tasks[u].processing_id => t = u
  /\ Len(beta_v2_processing_results) = Cardinality(SavingTasks)

\* a step leaves the saved results as they are or adds one at the end, and
\* a run that has ended is not run again
ResultsOnlyAppended ==
  /\ Len(beta_v2_processing_results') \in
       {Len(beta_v2_processing_results), Len(beta_v2_processing_results) + 1}
  /\ SubSeq(beta_v2_processing_results', 1, Len(beta_v2_processing_results))
       = beta_v2_processing_results
  /\ Len(background_tasks') >= Len(background_tasks)
  /\ \A t \in 1..Len(background_tasks) :
       background_tasks[t].pc = "ended" => background_tasks'[t] = background_tasks[t]

\* C30: no exception leaves process_dump_async and a run is never repeated;
\* a run that fails at any step (no pool, no dump, no HTML, broken dump JSON,
\* an error of the extraction or of the save) ends without a result row, a
\* run writes at most one row, and a row once written is never changed or
\* removed.
C30_FailedRunsWriteNothing == []RunsAndResults /\ [][ResultsOnlyAppended]_vars

\* a run has saved its result and, the pool closed since, another run of
\* the same dump has ended in the handler
C30_Witness ==
  /\ Len(beta_v2_processing_results) = 1
  /\ \E t, u \in 1..Len(background_tasks) :
       /\ background_tasks[t].log = "Saved processing result"
       /\ background_tasks[u].pc = "ended"
       /\ background_tasks[u].log = "Error processing dump"
====
